---- MODULE Spec2Model ----
(***************************************************************************)
(* State-machine model of parts of the proxy:                              *)
(*   - the provider fetcher (package provider: fetcher.Initial, Update,    *)
(*     Destroy, pullLoop, safeWrite, newFetcher),                          *)
(*   - the DHCP-derived DNS client (dns/dhcp.go: resolve, invalidate),     *)
(*   - configuration loading (config/config.go: ParseRawConfig,            *)
(*     parseProxies, parseRules, parseDNS, verifyScriptMatcher),           *)
(*   - the API server's authentication middleware (hub/route/server.go),   *)
(*   - the DoH client (dns/doh.go) and the HTTP outbound's StreamConn,     *)
(*   - the default interface of the TUN device (package commons:           *)
(*     GetAutoDetectInterface, onChangeDefaultRoute).                      *)
(* Each part has its own specification (FetcherSpec, DhcpSpec, ConfigSpec, *)
(* AuthSpec, ...) over its own variables; the variables of the other parts *)
(* stay put.                                                               *)
(***************************************************************************)
EXTENDS Integers, Sequences, FiniteSets, TLC

VARIABLES
    f,        \* the fetcher struct: interval, updatedAt, ticker, tmUpdate, done, hash, onUpdate
    vehicle,  \* the fetcher's vehicle: its Type() and Proxy()
    file,     \* the file at vehicle.Path(): exists, content, mtime
    now,      \* the fetcher's wall clock
    rt,       \* runtime objects of the fetcher: the timer behind tmUpdate, the ticker's channel
    pc,       \* where Initial, the pullLoop goroutine, the timer callback and Destroy stand
    obs,      \* observations of the fetcher: the last update() and its onUpdate, Destroy returns
    d,        \* the dhcpClient struct: ifaceInvalidate, dnsInvalidate, ifaceAddr, done, clients, err
    net,      \* the DHCP client's environment: clock, interface address, resolutions in flight
    call,     \* the callers of dhcpClient.resolve
    dobs,     \* observations of the DHCP client
    cfg,      \* the raw configuration read so far by parseProxies
    pp,       \* parseProxies' locals: proxies, providersMap, proxyList, its position
    res,      \* what ParseRawConfig returned
    cobs,     \* observations of config loading: constructions, Cleanup calls
    auth,     \* the API server: serverSecret, the last request and what the middleware did
    doh,      \* the DoH client: its shared transport, the exchanges made
    http,     \* the HTTP outbound: the connection dialed, the ECH lookup, the handshake
    rules,    \* parseRules: the proxies known, the raw rules, the rules parsed
    dns,      \* parseDNS: the name servers of the configuration, the fake-IP filter
    verify,   \* verifyScriptMatcher: the global script state, the matchers tried
    tun       \* the default-route monitor: the TUN status, the interface, the callbacks

fvars == <<f, vehicle, file, now, rt, pc, obs>>
dvars == <<d, net, call, dobs>>
cvars == <<cfg, pp, res, cobs>>
avars == <<auth>>
hvars == <<doh>>
ovars == <<http>>
rvars == <<rules>>
vars == <<f, vehicle, file, now, rt, pc, obs, d, net, call, dobs, cfg, pp, res, cobs,
          auth, doh, http, rules, dns, verify, tun>>

(***************************************************************************)
(* Bounds of the model.                                                    *)
(***************************************************************************)
NumPayloads == 3     \* distinct byte strings a vehicle can return
NumHashes == 2       \* distinct MD5 values (fewer than payloads: collisions exist)
MaxTicks == 2        \* ticker firings
MaxAge == 2          \* largest age of the cache file when Initial runs
MaxInterval == 1     \* largest update interval
MaxDestroy == 2      \* calls of Destroy
NumCallers == 2      \* goroutines calling dhcpClient.resolve
NumAddrs == 2        \* distinct IPv4 addresses the interface can have
MaxResolutions == 2  \* DHCP resolutions started
MaxAdvance == 1      \* advances of the DHCP client's clock
MaxProxies == 2      \* proxies a configuration declares
MaxGroups == 2       \* proxy groups a configuration declares
MaxHeaderLen == 3     \* symbols of an Authorization header
MaxTokenLen == 1      \* characters of a secret or token
MaxDials == 3         \* calls of Http.DialContext
MaxRawRules == 3      \* raw rules of a configuration, at all depths
MaxNest == 2          \* depth of rule groups inside rule groups
MaxServers == 2       \* name servers of a DNS configuration, in all its lists
MaxMatchers == 4      \* matchers given to verifyScriptMatcher
NumExchanges == 2     \* concurrent calls of dohClient.ExchangeContext
MaxEvents == 4        \* changes of the default route handled

(***************************************************************************)
(*                         PART I: THE FETCHER                             *)
(***************************************************************************)
Payloads == 1..NumPayloads
ReadErr == 0 - 1          \* vehicle.Read() returned an error
Truncated == 0            \* file content cut short by a failed write
NilTime == 0 - 1          \* updatedAt == nil
ZeroHash == 0             \* the zero value of [16]byte
ParseErr == 0             \* the parser returned an error

\* md5.Sum: a many-to-one function from byte strings to hash values, never
\* the zero hash.
MD5(b) == (b % NumHashes) + 1

\* The parser: payload 1 is malformed, and so is a truncated file; any other
\* payload parses to an element.
parser(b) == IF b = 1 \/ b = Truncated THEN ParseErr ELSE b

\* os.Chtimes(path, t, t); an error (no such file) is ignored by the caller.
Chtimes(fl, t) == IF fl.exists THEN [fl EXCEPT !.mtime = t] ELSE fl

\* safeWrite(path, buf). The outcome wr is where it stops:
\*   "open"  OpenRoot, Mkdir or OpenFile failed: the file is untouched;
\*   "write" OpenFile (O_CREATE|O_TRUNC) succeeded and Write failed: the file
\*           exists, truncated;
\*   "ok"    the file holds buf.
safeWrite(fl, b, wr, t) ==
    CASE wr = "open" -> fl
      [] wr = "write" -> [exists |-> TRUE, content |-> Truncated, mtime |-> t]
      [] OTHER -> [exists |-> TRUE, content |-> b, mtime |-> t]

WriteOutcomes == {"ok", "open", "write"}

\* vehicle.Read(): a file vehicle reads its own path; any other vehicle
\* returns what the network gives, or fails.
ReadResults ==
    IF vehicle.type = "File"
    THEN {IF file.exists THEN file.content ELSE ReadErr}
    ELSE Payloads \cup {ReadErr}

\* newFetcher: the state after construction.
newFetcher(interval) ==
    [interval |-> interval,
     updatedAt |-> NilTime,
     ticker |-> interval # 0,
     tmUpdate |-> "nil",
     done |-> 0,
     hash |-> ZeroHash,
     onUpdate |-> TRUE]

NoUpdate ==
    [by |-> "none", read |-> ReadErr, wr |-> "ok", err |-> "none", same |-> FALSE,
     calls |-> 0]

FetcherInit ==
    /\ \E i \in 0..MaxInterval : f = newFetcher(i)
    /\ vehicle \in {[type |-> "File", proxy |-> FALSE],
                    [type |-> "HTTP", proxy |-> FALSE],
                    [type |-> "HTTP", proxy |-> TRUE]}
    /\ \/ file = [exists |-> FALSE, content |-> Truncated, mtime |-> NilTime]
       \/ \E c \in Payloads, a \in {0, MaxAge} :
             file = [exists |-> TRUE, content |-> c, mtime |-> MaxAge - a]
    /\ now = MaxAge
    /\ rt = [timer |-> "none", delay |-> 0, tickerC |-> 0, tickerStopped |-> FALSE]
    /\ pc = [init |-> "new", loop |-> "none", destroy |-> "idle", immediately |-> FALSE]
    /\ obs = [destroyed |-> 0, panicked |-> FALSE, last |-> NoUpdate, first |-> <<>>,
              initReads |-> 0, elm |-> ParseErr]
    \* the other parts stand still
    /\ d = <<>> /\ net = <<>> /\ call = <<>> /\ dobs = <<>>
    /\ cfg = <<>> /\ pp = <<>> /\ res = <<>> /\ cobs = <<>>
    /\ auth = <<>> /\ doh = <<>> /\ http = <<>> /\ rules = <<>>
    /\ dns = <<>> /\ verify = <<>> /\ tun = <<>>

\* Update without the comparison of hashes: every payload read is parsed,
\* persisted and reported as new.
Update_NoDedup(b, wr) ==
    IF b = ReadErr
    THEN [f |-> f, file |-> file, elm |-> ParseErr, same |-> FALSE, err |-> "read"]
    ELSE IF parser(b) = ParseErr
    THEN [f |-> f, file |-> file, elm |-> ParseErr, same |-> FALSE, err |-> "parse"]
    ELSE IF vehicle.type # "File" /\ wr # "ok"
    THEN [f |-> f, file |-> safeWrite(file, b, wr, now),
          elm |-> ParseErr, same |-> FALSE, err |-> "write"]
    ELSE [f |-> [f EXCEPT !.updatedAt = now, !.hash = MD5(b)],
          file |-> IF vehicle.type # "File" THEN safeWrite(file, b, "ok", now) ELSE file,
          elm |-> parser(b), same |-> FALSE, err |-> "nil"]

\* Update with the time and the hash stored before parsing and persisting, so
\* that a failure leaves them changed.
Update_EagerStore(b, wr) ==
    IF b = ReadErr
    THEN [f |-> f, file |-> file, elm |-> ParseErr, same |-> FALSE, err |-> "read"]
    ELSE IF MD5(b) = f.hash
    THEN [f |-> [f EXCEPT !.updatedAt = now], file |-> Chtimes(file, now),
          elm |-> ParseErr, same |-> TRUE, err |-> "nil"]
    ELSE IF parser(b) = ParseErr
    THEN [f |-> [f EXCEPT !.updatedAt = now, !.hash = MD5(b)], file |-> file,
          elm |-> ParseErr, same |-> FALSE, err |-> "parse"]
    ELSE IF vehicle.type # "File" /\ wr # "ok"
    THEN [f |-> [f EXCEPT !.updatedAt = now, !.hash = MD5(b)],
          file |-> safeWrite(file, b, wr, now),
          elm |-> ParseErr, same |-> FALSE, err |-> "write"]
    ELSE [f |-> [f EXCEPT !.updatedAt = now, !.hash = MD5(b)],
          file |-> IF vehicle.type # "File" THEN safeWrite(file, b, "ok", now) ELSE file,
          elm |-> parser(b), same |-> FALSE, err |-> "nil"]

\* The part of Update after vehicle.Read() returned b: the fetcher, the file
\* and the result (elm, same, err). wr is the outcome of safeWrite.
Update(b, wr) ==
    IF b = ReadErr
    THEN [f |-> f, file |-> file, elm |-> ParseErr, same |-> FALSE, err |-> "read"]
    ELSE IF MD5(b) = f.hash
    THEN [f |-> [f EXCEPT !.updatedAt = now], file |-> Chtimes(file, now),
          elm |-> ParseErr, same |-> TRUE, err |-> "nil"]
    ELSE IF parser(b) = ParseErr
    THEN [f |-> f, file |-> file, elm |-> ParseErr, same |-> FALSE, err |-> "parse"]
    ELSE IF vehicle.type # "File" /\ wr # "ok"
    THEN [f |-> f, file |-> safeWrite(file, b, wr, now),
          elm |-> ParseErr, same |-> FALSE, err |-> "write"]
    ELSE [f |-> [f EXCEPT !.updatedAt = now, !.hash = MD5(b)],
          file |-> IF vehicle.type # "File" THEN safeWrite(file, b, "ok", now) ELSE file,
          elm |-> parser(b), same |-> FALSE, err |-> "nil"]

\* pullLoop's update closure, after Update returned u: onUpdate is invoked
\* when there was no error and the payload is not the same.
InvokesOnUpdate(u) == u.err = "nil" /\ ~u.same /\ u.f.onUpdate

\* Initial, as a function of its inputs: r is what vehicle.Read() returns if it
\* is called, wr the outcome of safeWrite if it is called. The result holds
\* the fetcher and the file afterwards, err (TRUE: Initial returned an error),
\* immediately (the argument of pullLoop), the element returned and the
\* number of vehicle reads made.
InitialFetch(f0, r, wr, imm) ==
    IF r = ReadErr \/ parser(r) = ParseErr
    THEN [f |-> f0, file |-> file, err |-> TRUE, immediately |-> imm,
          elm |-> ParseErr, reads |-> 1]
    ELSE IF vehicle.type # "File" /\ wr # "ok"
    THEN [f |-> f0, file |-> safeWrite(file, r, wr, now), err |-> TRUE,
          immediately |-> imm, elm |-> ParseErr, reads |-> 1]
    ELSE [f |-> [f0 EXCEPT !.hash = MD5(r)],
          file |-> IF vehicle.type # "File" THEN safeWrite(file, r, "ok", now) ELSE file,
          err |-> FALSE, immediately |-> imm, elm |-> parser(r), reads |-> 1]

InitialDelayed(f0) ==
    [f |-> f0, file |-> file, err |-> FALSE, immediately |-> TRUE,
     elm |-> ParseErr, reads |-> 0]

\* Initial without the delay for proxy-bound vehicles: it reads from the
\* vehicle whenever it has no element from the local file.
InitialResult_NoProxyDelay(r, wr) ==
    IF file.exists
    THEN LET f0 == [f EXCEPT !.updatedAt = file.mtime]
             imm == f.interval # 0 /\ now - file.mtime > f.interval
         IN IF parser(file.content) # ParseErr
            THEN [f |-> [f0 EXCEPT !.hash = MD5(file.content)], file |-> file,
                  err |-> FALSE, immediately |-> imm,
                  elm |-> parser(file.content), reads |-> 0]
            ELSE InitialFetch(f0, r, wr, imm)
    ELSE InitialFetch(f, r, wr, FALSE)

\* Initial, lines 46-114, as a function of what vehicle.Read() and safeWrite
\* give if they are called.
InitialResult(r, wr) ==
    IF file.exists
    THEN LET f0 == [f EXCEPT !.updatedAt = file.mtime]
             imm == f.interval # 0 /\ now - file.mtime > f.interval
         IN IF parser(file.content) # ParseErr
            THEN [f |-> [f0 EXCEPT !.hash = MD5(file.content)], file |-> file,
                  err |-> FALSE, immediately |-> imm,
                  elm |-> parser(file.content), reads |-> 0]
            ELSE IF vehicle.proxy
            THEN InitialDelayed(f0)
            ELSE InitialFetch(f0, r, wr, imm)
    ELSE IF vehicle.proxy
    THEN InitialDelayed(f)
    ELSE InitialFetch(f, r, wr, FALSE)

Alive == ~obs.panicked

\* A step of the fetcher leaves the other parts alone.
FetcherOnly == UNCHANGED <<dvars, cvars, avars, hvars, ovars, rvars, dns, verify, tun>>

\* fetcher.Initial. It is not called on a fetcher that was destroyed.
Initial ==
    /\ Alive /\ FetcherOnly
    /\ pc.init = "new" /\ pc.destroy = "idle" /\ obs.destroyed = 0
    /\ \E r \in ReadResults, wr \in WriteOutcomes :
          LET x == InitialResult(r, wr)
          IN /\ f' = x.f
             /\ file' = x.file
             /\ pc' = [pc EXCEPT !.init = IF x.err THEN "err" ELSE "ok",
                                 !.loop = IF ~x.err /\ vehicle.type # "File"
                                          THEN "start" ELSE "none",
                                 !.immediately = x.immediately]
             /\ obs' = [obs EXCEPT !.initReads = x.reads, !.elm = x.elm]
    /\ UNCHANGED <<vehicle, now, rt>>

\* The runtime's ticker sends on ticker.C (a channel of capacity one) every
\* interval, from its creation in newFetcher until Stop.
TickerFire ==
    /\ Alive /\ FetcherOnly
    /\ f.ticker /\ ~rt.tickerStopped /\ now < MaxAge + MaxTicks
    /\ now' = now + 1
    /\ rt' = [rt EXCEPT !.tickerC = 1]
    /\ UNCHANGED <<f, vehicle, file, pc, obs>>

\* The delay of the first fetch, in seconds: time.AfterFunc(50*time.Second, ...).
FirstFetchDelay == 50

\* pullLoop up to its for loop: arm the delayed first fetch when immediately
\* is set, and return when there is no ticker.
pullLoopStart ==
    /\ Alive /\ FetcherOnly
    /\ pc.loop = "start"
    /\ IF pc.immediately
       THEN /\ f' = [f EXCEPT !.tmUpdate = "timer"]
            /\ rt' = [rt EXCEPT !.timer = "pending", !.delay = FirstFetchDelay]
       ELSE UNCHANGED <<f, rt>>
    /\ pc' = [pc EXCEPT !.loop = IF f.ticker THEN "select" ELSE "exited"]
    /\ UNCHANGED <<vehicle, file, now, obs>>

\* What update() leaves in obs.last: who ran it, its inputs (the bytes read, the
\* outcome of safeWrite), Update's result, and the number of onUpdate
\* invocations it made.
Observed(who, r, wr, u) ==
    [by |-> who, read |-> r, wr |-> wr, err |-> u.err, same |-> u.same,
     calls |-> IF InvokesOnUpdate(u) THEN 1 ELSE 0]

\* case <-f.ticker.C: update(), that is Update and then onUpdate.
pullLoopTick ==
    /\ Alive /\ FetcherOnly
    /\ pc.loop = "select" /\ rt.tickerC = 1
    /\ \E r \in ReadResults, wr \in WriteOutcomes :
          LET u == Update(r, wr)
          IN /\ f' = u.f
             /\ file' = u.file
             /\ obs' = [obs EXCEPT !.last = Observed("ticker", r, wr, u)]
    /\ rt' = [rt EXCEPT !.tickerC = 0]
    /\ UNCHANGED <<vehicle, now, pc>>

\* case <-f.done: stop the ticker and return.
pullLoopDone ==
    /\ Alive /\ FetcherOnly
    /\ pc.loop = "select" /\ f.done = 1
    /\ f' = [f EXCEPT !.done = 0]
    /\ rt' = [rt EXCEPT !.tickerStopped = TRUE]
    /\ pc' = [pc EXCEPT !.loop = "exited"]
    /\ UNCHANGED <<vehicle, file, now, obs>>

\* The timer armed by pullLoop fires: its callback runs update() and then
\* f.tmUpdate = nil.
TimerFire ==
    /\ Alive /\ FetcherOnly
    /\ rt.timer = "pending"
    /\ \E r \in ReadResults, wr \in WriteOutcomes :
          LET u == Update(r, wr)
          IN /\ f' = [u.f EXCEPT !.tmUpdate = "nil"]
             /\ file' = u.file
             /\ obs' = [obs EXCEPT !.last = Observed("timer", r, wr, u)]
    /\ rt' = [rt EXCEPT !.timer = "fired"]
    /\ UNCHANGED <<vehicle, now, pc>>

\* (*time.Timer).Stop: a timer that has not fired yet will not fire.
TimerStop(t) == IF t = "pending" THEN "stopped" ELSE t

\* Destroy, line 148: if f.tmUpdate != nil.
DestroyCheck ==
    /\ Alive /\ FetcherOnly
    /\ pc.destroy = "idle" /\ obs.destroyed < MaxDestroy
    /\ pc' = [pc EXCEPT !.destroy = IF f.tmUpdate # "nil" THEN "stop" ELSE "send"]
    /\ UNCHANGED <<f, vehicle, file, now, rt, obs>>

\* Destroy, lines 149-150: f.tmUpdate.Stop(); f.tmUpdate = nil. The field is
\* read again, unsynchronised with the timer callback's f.tmUpdate = nil:
\* when the callback cleared it in between, the call is made either on the
\* pointer read at line 148 or on the nil read now (a nil dereference).
DestroyStop ==
    /\ Alive /\ FetcherOnly
    /\ pc.destroy = "stop"
    /\ \E reread \in BOOLEAN :
          IF reread /\ f.tmUpdate = "nil"
          THEN /\ obs' = [obs EXCEPT !.panicked = TRUE]
               /\ UNCHANGED <<f, rt, pc>>
          ELSE /\ rt' = [rt EXCEPT !.timer = TimerStop(@)]
               /\ f' = [f EXCEPT !.tmUpdate = "nil"]
               /\ pc' = [pc EXCEPT !.destroy = "send"]
               /\ obs' = obs
    /\ UNCHANGED <<vehicle, file, now>>

\* What a call of Destroy leaves behind: the timer field, whether a delayed
\* fetch is still armed, and the done channel.
StoppedState == [tmUpdate |-> f.tmUpdate, armed |-> rt.timer = "pending", done |-> f.done]

\* Destroy, lines 152-158: the non-blocking send on done, and the return.
DestroySend ==
    /\ Alive /\ FetcherOnly
    /\ pc.destroy = "send"
    /\ UNCHANGED <<vehicle, file, now, rt>>
    /\ f' = [f EXCEPT !.done = IF f.ticker THEN 1 ELSE @]
    /\ pc' = [pc EXCEPT !.destroy = "idle"]
    /\ obs' = [obs EXCEPT !.destroyed = @ + 1,
                          !.first = IF obs.destroyed = 0 THEN <<StoppedState'>> ELSE @]

FetcherNext ==
    \/ Initial
    \/ TickerFire
    \/ pullLoopStart
    \/ pullLoopTick
    \/ pullLoopDone
    \/ TimerFire
    \/ DestroyCheck
    \/ DestroyStop
    \/ DestroySend

(***************************************************************************)
(* Claims about the fetcher.                                               *)
(***************************************************************************)
\* A step in which pullLoop takes a tick and runs update().
TickStep == rt.tickerC = 1 /\ rt'.tickerC = 0

\* A step in which the delayed first fetch runs update().
DelayedFetchStep == rt.timer = "pending" /\ rt'.timer = "fired"

\* The inputs of an update() make Update fail: the read fails, or the payload
\* is new and does not parse or cannot be persisted.
UpdateFails(b, wr) ==
    \/ b = ReadErr
    \/ /\ MD5(b) # f.hash
       /\ parser(b) = ParseErr \/ (vehicle.type # "File" /\ wr # "ok")

\* C1: on a tick whose vehicle read succeeds, onUpdate is invoked exactly once
\* when the MD5 of the bytes differs from the stored hash and they parse and
\* are persisted, and not at all when the MD5 equals the stored hash; in the
\* equal case only updatedAt and the file's mtime change.
C1_TickInvokesOnUpdateOnce ==
    [][(TickStep /\ obs'.last.read # ReadErr) =>
          IF MD5(obs'.last.read) = f.hash
          THEN /\ obs'.last.calls = 0
               /\ f' = [f EXCEPT !.updatedAt = now]
               /\ file'.exists = file.exists /\ file'.content = file.content
               /\ file.exists => file'.mtime = now
          ELSE ~UpdateFails(obs'.last.read, obs'.last.wr) =>
                  /\ obs'.last.calls = 1
                  /\ f'.hash = MD5(obs'.last.read)]_vars

\* A tick brought a new payload, which was parsed, persisted and reported.
C1_Witness ==
    /\ obs.last.by = "ticker" /\ obs.last.calls = 1
    /\ obs.last.read \in Payloads /\ f.hash = MD5(obs.last.read)
    /\ vehicle.type = "HTTP" /\ file.content = obs.last.read
    /\ now = MaxAge + MaxTicks

\* C2: when the Update of a tick fails (read, parse or persist error), the
\* stored hash and updatedAt stay as they were, onUpdate is not invoked, and
\* the pull loop is still running, waiting for the next tick.
C2_FailedUpdateKeepsState ==
    [][(TickStep /\ UpdateFails(obs'.last.read, obs'.last.wr)) =>
          /\ obs'.last.calls = 0
          /\ f'.hash = f.hash /\ f'.updatedAt = f.updatedAt
          /\ pc'.loop = "select" /\ ~rt'.tickerStopped]_vars

\* A tick failed to persist a new payload, and the next tick is there.
C2_Witness ==
    /\ obs.last.by = "ticker" /\ obs.last.err = "write"
    /\ pc.loop = "select" /\ rt.tickerC = 1
    /\ f.hash # ZeroHash

\* C3 as stated: once a call of Destroy has returned, no update() runs any
\* more, neither from the ticker nor from the delayed first fetch.
C3_NoUpdateAfterDestroy ==
    [][obs.destroyed >= 1 => ~(TickStep \/ DelayedFetchStep)]_vars

\* C4 as stated: Destroy never panics, and every call after the first
\* returns with the fetcher in the stopped state the first call left.
C4_DestroyIdempotent ==
    [][/\ ~obs'.panicked
       /\ (obs.destroyed >= 1 /\ obs'.destroyed > obs.destroyed) =>
             StoppedState' = obs.first[1]]_vars

\* The step in which Initial runs.
InitialStep == pc.init = "new" /\ pc'.init # "new"

\* The cache file exists and is no older than interval (any age when there
\* is no interval).
Fresh == file.exists /\ (f.interval = 0 \/ now - file.mtime <= f.interval)

\* C13 as stated: Initial returns the element parsed from the local file only
\* when the file exists and is younger than interval; when the file is
\* missing or older, a successful Initial has read the payload from the
\* vehicle and the cache path holds it. (Proxy-bound vehicles, which C14
\* exempts from the synchronous fetch, are left aside.)
C13_InitialFetchesUnlessFresh ==
    [][(InitialStep /\ ~vehicle.proxy) =>
          /\ (pc'.init = "ok" /\ obs'.initReads = 0 /\ obs'.elm # ParseErr) => Fresh
          /\ (pc'.init = "ok" /\ ~Fresh) =>
                /\ obs'.initReads = 1
                /\ file'.exists /\ parser(file'.content) = obs'.elm]_vars

\* C14: when the local file does not parse and the vehicle is not
\* proxy-bound, Initial reads from the vehicle and returns what that payload
\* parses to, or an error; a proxy-bound vehicle is never read by Initial,
\* and with no local file or one that does not parse Initial returns no
\* error and no element and starts pullLoop with immediately set, which arms
\* the timer of the first fetch once, 50 s ahead.
C14_FallbackOrDelayedFetch ==
    [][/\ InitialStep =>
             /\ (file.exists /\ parser(file.content) = ParseErr /\ ~vehicle.proxy) =>
                   /\ obs'.initReads = 1
                   /\ pc'.init = "ok" => (obs'.elm # ParseErr /\ f'.hash # ZeroHash)
             /\ vehicle.proxy => obs'.initReads = 0
             /\ (vehicle.proxy /\ (~file.exists \/ parser(file.content) = ParseErr)) =>
                   /\ pc'.init = "ok" /\ obs'.elm = ParseErr
                   /\ pc'.immediately /\ pc'.loop = "start"
                   /\ file' = file
       /\ (pc.loop = "start" /\ pc'.loop # "start" /\ pc.immediately) =>
             rt'.timer = "pending" /\ rt'.delay = FirstFetchDelay
       /\ (rt.timer # "none" /\ rt'.timer = "pending") => rt.timer = "pending"]_vars

\* A proxy-bound vehicle whose local file does not parse: Initial made no
\* read and returned no error, and the timer of the first fetch is armed.
C14_Witness ==
    /\ vehicle.proxy /\ file.exists /\ parser(file.content) = ParseErr
    /\ pc.init = "ok" /\ obs.initReads = 0
    /\ rt.timer = "pending" /\ rt.delay = FirstFetchDelay

\* C15 as stated: after a successful Initial of a fetcher with an interval,
\* of whatever vehicle type, a pullLoop is there to take every tick of the
\* ticker until Destroy is called.
C15_EveryTickFetches ==
    (pc.init = "ok" /\ f.ticker /\ rt.tickerC = 1 /\ obs.destroyed = 0
        /\ pc.destroy = "idle") => pc.loop \in {"start", "select"}

\* C16 as stated: the cache path never holds truncated or partial content;
\* after every step it holds the complete old content or the complete
\* payload written.
C16_WriteReplacesAtomically ==
    [][file'.exists => file'.content \in Payloads]_vars

(***************************************************************************)
(*                      PART II: THE DHCP DNS CLIENT                       *)
(***************************************************************************)
\* Times are in seconds.
IfaceTTL == 20
DHCPTTL == 3600
DHCPTimeout == 60

Callers == 1..NumCallers
Addrs == 1..NumAddrs
Resolutions == 1..MaxResolutions
Nil == 0            \* a nil channel, a nil client list, a nil address
ZeroTime == 0       \* the zero time.Time, and the clock's start

\* newDHCPClient: every field but ifaceName is zero.
newDHCPClient ==
    [ifaceInvalidate |-> ZeroTime,
     dnsInvalidate |-> ZeroTime,
     ifaceAddr |-> Nil,
     done |-> Nil,
     clients |-> Nil,
     err |-> "nil"]

\* No call of resolve has returned yet.
NoReturn == [res |-> Nil, err |-> "none", arrived |-> Nil]

\* A channel made at line 69 is named by the resolution it belongs to, and so
\* is the client list that resolution stores. net.addr is the address
\* PickIPv4Addr returns for the interface now (Nil: the interface or its
\* address cannot be found); net.running holds the resolving goroutines,
\* net.next the number of the next one. dobs.started keeps when each
\* resolution started; call[c].arrived, the resolution that was in flight
\* when caller c left resolve's first critical section; dobs.last, what the
\* last call to return returned and the resolution that caller had met.
DhcpInit ==
    /\ d = newDHCPClient
    /\ net = [now |-> ZeroTime, adv |-> 0, addr |-> 1, running |-> {}, next |-> 1]
    /\ call = [c \in Callers |-> [pc |-> "idle", ch |-> Nil, arrived |-> Nil]]
    /\ dobs = [started |-> [r \in Resolutions |-> ZeroTime], last |-> NoReturn]
    \* the other parts stand still
    /\ f = <<>> /\ vehicle = <<>> /\ file = <<>> /\ now = 0
    /\ rt = <<>> /\ pc = <<>> /\ obs = <<>>
    /\ cfg = <<>> /\ pp = <<>> /\ res = <<>> /\ cobs = <<>>
    /\ auth = <<>> /\ doh = <<>> /\ http = <<>> /\ rules = <<>>
    /\ dns = <<>> /\ verify = <<>> /\ tun = <<>>

\* The done channels that are closed: those of the resolutions that ended.
Closed == {r \in Resolutions : r < net.next /\ r \notin net.running}

\* invalidate with its last line returning true whatever d.done is.
invalidate_AlwaysStart(dd, t, addr) ==
    IF t < dd.ifaceInvalidate
    THEN [d |-> dd, invalidated |-> FALSE, err |-> FALSE]
    ELSE LET d1 == [dd EXCEPT !.ifaceInvalidate = t + IfaceTTL]
         IN IF addr = Nil
            THEN [d |-> d1, invalidated |-> FALSE, err |-> TRUE]
            ELSE IF t < d1.dnsInvalidate /\ d1.ifaceAddr = addr
            THEN [d |-> d1, invalidated |-> FALSE, err |-> FALSE]
            ELSE [d |-> [d1 EXCEPT !.dnsInvalidate = t + DHCPTTL, !.ifaceAddr = addr],
                  invalidated |-> TRUE, err |-> FALSE]

\* invalidate, on the client dd at time t with the interface at addr: the
\* client afterwards and the two results.
invalidate(dd, t, addr) ==
    IF t < dd.ifaceInvalidate
    THEN [d |-> dd, invalidated |-> FALSE, err |-> FALSE]
    ELSE LET d1 == [dd EXCEPT !.ifaceInvalidate = t + IfaceTTL]
         IN IF addr = Nil
            THEN [d |-> d1, invalidated |-> FALSE, err |-> TRUE]
            ELSE IF t < d1.dnsInvalidate /\ d1.ifaceAddr = addr
            THEN [d |-> d1, invalidated |-> FALSE, err |-> FALSE]
            ELSE [d |-> [d1 EXCEPT !.dnsInvalidate = t + DHCPTTL, !.ifaceAddr = addr],
                  invalidated |-> d1.done = Nil, err |-> FALSE]

\* A step of the DHCP client leaves the other parts alone.
DhcpOnly == UNCHANGED <<fvars, cvars, avars, hvars, ovars, rvars, dns, verify, tun>>

\* resolve, lines 63-104: under the lock, invalidate; store its error, or make
\* the done channel and start the resolving goroutine.
resolveEnter(c) ==
    /\ DhcpOnly
    /\ call[c].pc = "idle"
    /\ LET r == invalidate(d, net.now, net.addr)
           id == net.next
       IN /\ r.invalidated => id <= MaxResolutions
          /\ d' = IF r.err THEN [r.d EXCEPT !.err = "iface"]
                  ELSE IF r.invalidated THEN [r.d EXCEPT !.done = id]
                  ELSE r.d
          /\ net' = IF r.invalidated
                    THEN [net EXCEPT !.running = @ \cup {id}, !.next = id + 1]
                    ELSE net
          /\ dobs' = IF r.invalidated
                     THEN [dobs EXCEPT !.started[id] = net.now]
                     ELSE dobs
          /\ call' = [call EXCEPT ![c].pc = "read", ![c].arrived = d'.done]

\* Caller c returns (res, err) from resolve.
Return(c, r, err) ==
    /\ call' = [call EXCEPT ![c] = [pc |-> "idle", ch |-> Nil, arrived |-> Nil]]
    /\ dobs' = [dobs EXCEPT !.last = [res |-> r, err |-> err,
                                      arrived |-> call[c].arrived]]

\* The waiting of resolve's loop, lines 113-121, left out: with nothing
\* stored the caller returns what it read.
resolveRead_NoWait(c) ==
    /\ DhcpOnly
    /\ call[c].pc = "read"
    /\ Return(c, d.clients, d.err)
    /\ UNCHANGED <<d, net>>

\* resolve, lines 107-124: under the lock, read clients, err and done; with
\* neither a list nor an error wait on done, otherwise return them.
resolveRead(c) ==
    /\ DhcpOnly
    /\ call[c].pc = "read"
    /\ IF d.clients = Nil /\ d.err = "nil"
       THEN /\ call' = [call EXCEPT ![c].pc = "wait", ![c].ch = d.done]
            /\ dobs' = dobs
       ELSE Return(c, d.clients, d.err)
    /\ UNCHANGED <<d, net>>

\* case <-done: the channel waited on is closed; continue the loop.
resolveWake(c) ==
    /\ DhcpOnly
    /\ call[c].pc = "wait" /\ call[c].ch \in Closed
    /\ call' = [call EXCEPT ![c].pc = "read", ![c].ch = Nil]
    /\ UNCHANGED <<d, net, dobs>>

\* case <-ctx.Done(): return nil, ctx.Err().
resolveCtxDone(c) ==
    /\ DhcpOnly
    /\ call[c].pc = "wait"
    /\ Return(c, Nil, "ctx")
    /\ UNCHANGED <<d, net>>

\* The goroutine of lines 73-101 ends: ResolveDNSFromDHCP returned a non-empty
\* list (ok) or an error; under the lock close done, clear d.done, store the
\* list and the error.
resolveFinish(r) ==
    /\ DhcpOnly
    /\ r \in net.running
    /\ \E ok \in BOOLEAN :
          d' = [d EXCEPT !.done = Nil,
                         !.clients = IF ok THEN r ELSE Nil,
                         !.err = IF ok THEN "nil" ELSE "dhcp"]
    /\ net' = [net EXCEPT !.running = @ \ {r}]
    /\ UNCHANGED <<call, dobs>>

\* Time passes. A resolution does not outlive its context's DHCPTimeout.
Advance ==
    /\ DhcpOnly
    /\ net.adv < MaxAdvance
    /\ \E dt \in {IfaceTTL, DHCPTTL} :
          /\ \A r \in net.running : net.now + dt - dobs.started[r] <= DHCPTimeout
          /\ net' = [net EXCEPT !.now = @ + dt, !.adv = @ + 1]
    /\ UNCHANGED <<d, call, dobs>>

\* The interface gets another IPv4 address, or loses it.
AddrChange ==
    /\ DhcpOnly
    /\ \E a \in (Addrs \cup {Nil}) \ {net.addr} : net' = [net EXCEPT !.addr = a]
    /\ UNCHANGED <<d, call, dobs>>

DhcpNext ==
    \/ \E c \in Callers : resolveEnter(c)
    \/ \E c \in Callers : resolveRead(c)
    \/ \E c \in Callers : resolveWake(c)
    \/ \E c \in Callers : resolveCtxDone(c)
    \/ \E r \in Resolutions : resolveFinish(r)
    \/ Advance
    \/ AddrChange

(***************************************************************************)
(* Claims about the DHCP DNS client.                                       *)
(***************************************************************************)
\* C5: at most one DHCP resolution is in flight at any time, and one is in
\* flight exactly while d.done is not nil (so none is started unless d.done
\* is nil).
C5_SingleResolutionInFlight ==
    /\ Cardinality(net.running) <= 1
    /\ net.running = IF d.done = Nil THEN {} ELSE {d.done}

\* While a resolution is in flight and a caller waits for it, a later call
\* found the cache invalid (it stamped a new dnsInvalidate) and started none.
C5_Witness ==
    /\ d.done # Nil /\ d.done \in net.running
    /\ d.dnsInvalidate > dobs.started[d.done] + DHCPTTL
    /\ \E c \in Callers : call[c].pc = "wait" /\ call[c].ch = d.done

\* A step in which caller c returns from resolve what it read, not its
\* context's error.
ReturnStep(c) == call[c].pc = "read" /\ call'[c].pc = "idle"

\* C6 as stated: a caller that arrived while a refresh was in flight returns
\* (otherwise than by its context) only once that refresh has finished.
C6_CallersAwaitRefresh ==
    [][\A c \in Callers : ReturnStep(c) => call[c].arrived \notin net.running]_vars

\* C6 as amended: a caller waits only while the client holds neither a list
\* nor an error, and then on the channel of the resolution in flight, so that
\* it never returns that empty state; otherwise it returns at once what is
\* stored, also while the refresh it met is still running.
C6_WaitsOnlyWhileNothingStored ==
    [][\A c \in Callers :
          /\ ReturnStep(c) =>
                /\ d.clients # Nil \/ d.err # "nil"
                /\ dobs'.last = [res |-> d.clients, err |-> d.err,
                                 arrived |-> call[c].arrived]
          /\ (call[c].pc = "read" /\ (d.clients # Nil \/ d.err # "nil")) =>
                call'[c].pc # "wait"
          /\ call'[c].pc = "wait" =>
                /\ call'[c].ch # Nil
                /\ call'[c].ch \in net'.running => d'.clients = Nil /\ d'.err # "dhcp"]_vars

\* A caller has returned the list of an earlier resolution while the refresh
\* it met on arrival is still running.
C6_Witness ==
    /\ dobs.last.res # Nil /\ dobs.last.err = "nil"
    /\ dobs.last.arrived \in net.running
    /\ dobs.last.res # dobs.last.arrived

\* C7 as stated: a resolution is started only when the DHCP TTL has expired
\* or the interface's address differs from the recorded one; and a list the
\* client holds with no resolution in flight comes from a resolution that
\* started no earlier than the last such event (the event is stamped in
\* dnsInvalidate, DHCPTTL ahead).
C7_ListReusedUntilEvent ==
    [][/\ \A r \in Resolutions :
             (r \notin net.running /\ r \in net'.running) =>
                (net.now >= d.dnsInvalidate \/ d.ifaceAddr # net.addr)
       /\ (d'.clients # Nil /\ d'.done = Nil) =>
             dobs'.started[d'.clients] >= d'.dnsInvalidate - DHCPTTL]_vars

\* A step in which caller c enters resolve and invalidate looks the
\* interface up and finds its address: the re-check period is over and the
\* interface is there.
CheckedEnter(c) ==
    /\ call[c].pc = "idle" /\ call'[c].pc = "read"
    /\ net.now >= d.ifaceInvalidate /\ net.addr # Nil

\* C27 as stated: a stored error is not sticky. A call of resolve that comes
\* after the re-check period and finds the interface either has a resolution
\* in flight when it leaves the critical section or finds no error stored;
\* and with a list stored, it does not find the error of an earlier failed
\* interface lookup.
C27_StoredErrorNotSticky ==
    [][\A c \in Callers :
          CheckedEnter(c) =>
              /\ d'.done # Nil \/ d'.err = "nil"
              /\ d'.clients # Nil => d'.err # "iface"]_vars

(***************************************************************************)
(*                     PART III: CONFIGURATION LOADING                     *)
(***************************************************************************)
\* Names a configuration gives to its proxies; groups are named out of
\* GroupNames or lack the "name" key, and list members out of Members.
ProxyNames == {"DIRECT", "REJECT", "GLOBAL", "a", "b"}
NoName == "?"
GroupNames == {"DIRECT", "GLOBAL", "a", "b"}
Members == {{}, {"a"}, {"b"}}
GroupMappings == [name : GroupNames \cup {NoName}, proxies : Members]

\* provider.ReservedName, the name of the provider that backs GLOBAL.
ReservedName == "default"
ProviderNames == {ReservedName, "p"}

\* The stages of ParseRawConfig after parseProxies that can fail.
LaterStages == {"script", "rules", "hosts", "dns", "mitm", "tunnel", "verify"}

\* A constructed proxy (kind direct, reject, proxy, group or global) or
\* provider (kind provider).
Object(kind, name) == [kind |-> kind, name |-> name]

\* m[k] = v in a Go map.
Put(m, k, v) == [x \in DOMAIN m \cup {k} |-> IF x = k THEN v ELSE m[x]]

\* One more occurrence of each object of objs in the bag.
Count(bag, objs) ==
    [o \in DOMAIN bag \cup objs |->
        (IF o \in DOMAIN bag THEN bag[o] ELSE 0) + (IF o \in objs THEN 1 ELSE 0)]

\* providerTypes.Cleanup(proxies, providers): the objects it cleans up.
Cleanup(proxies, providers) ==
    {proxies[n] : n \in DOMAIN proxies} \cup
    {Object("provider", n) : n \in DOMAIN providers}

\* The groups that n reaches through at most k member lists.
RECURSIVE Reach(_, _, _)
Reach(groups, n, k) ==
    IF k = 0 THEN {}
    ELSE LET direct == UNION {groups[i].proxies :
                                 i \in {j \in DOMAIN groups : groups[j].name = n}}
         IN  direct \cup UNION {Reach(groups, m, k - 1) : m \in direct}

\* Some group is, through member lists, a member of itself.
HasLoop(groups) ==
    \E i \in DOMAIN groups : groups[i].name \in Reach(groups, groups[i].name, Len(groups))

\* proxyGroupsDagSort: the orders it may leave the groups in, every group
\* after the groups it lists; none when the groups have a loop.
proxyGroupsDagSort(groups) ==
    IF HasLoop(groups) THEN {}
    ELSE LET n == Len(groups)
             perms == {p \in [1..n -> 1..n] : \A i, j \in 1..n : p[i] = p[j] => i = j}
         IN  {s \in {[i \in 1..n |-> groups[p[i]]] : p \in perms} :
                 \A i, j \in 1..n : i < j => s[j].name \notin s[i].proxies}

\* outboundgroup.ParseProxyGroup fails on a member that is not in proxies.
ParseProxyGroupFails(mapping, proxies) ==
    \E m \in mapping.proxies : m \notin DOMAIN proxies

\* No call of parseProxies is running.
NoFrame == [pc |-> "none", proxies |-> <<>>, providersMap |-> <<>>,
            proxyList |-> <<>>, i |-> 0]

\* cfg.groups is the slice of group mappings, which the sort reorders;
\* cfg.written keeps the groups' names in the order of the configuration file.
ConfigInit ==
    /\ cfg = [proxies |-> <<>>, groups |-> <<>>, written |-> <<>>, providers |-> {}]
    /\ pp = NoFrame
    /\ res = [pc |-> "general", err |-> "nil", config |-> TRUE,
              Proxies |-> <<>>, Providers |-> <<>>, global |-> <<>>]
    /\ cobs = [built |-> <<>>, cleaned |-> <<>>]
    \* the other parts stand still
    /\ f = <<>> /\ vehicle = <<>> /\ file = <<>> /\ now = 0
    /\ rt = <<>> /\ pc = <<>> /\ obs = <<>>
    /\ d = <<>> /\ net = <<>> /\ call = <<>> /\ dobs = <<>>
    /\ auth = <<>> /\ doh = <<>> /\ http = <<>> /\ rules = <<>>
    /\ dns = <<>> /\ verify = <<>> /\ tun = <<>>

ConfigOnly == UNCHANGED <<fvars, dvars, avars, hvars, ovars, rvars, dns, verify, tun>>

\* parseProxies returns the error e, having constructed the objects new on
\* top of its maps: its deferred function cleans up proxies and providers;
\* ParseRawConfig returns in turn, config.Proxies and config.Providers still
\* nil, and sets config to nil.
ReturnErr(e, new) ==
    /\ pp' = NoFrame
    /\ res' = [res EXCEPT !.pc = "done", !.err = e, !.config = FALSE]
    /\ cobs' = [built |-> Count(cobs.built, new),
                cleaned |-> Count(cobs.cleaned, Cleanup(pp.proxies, pp.providersMap))]

\* ParseRawConfig, lines 429-438, and parseProxies, lines 555-566.
parseGeneral ==
    /\ ConfigOnly
    /\ res.pc = "general"
    /\ \E ok \in BOOLEAN :
          IF ok
          THEN /\ res' = [res EXCEPT !.pc = "proxies"]
               /\ pp' = [pc |-> "proxy",
                         proxies |-> Put(Put(<<>>, "DIRECT", Object("direct", "DIRECT")),
                                         "REJECT", Object("reject", "REJECT")),
                         providersMap |-> <<>>,
                         proxyList |-> <<"DIRECT", "REJECT">>,
                         i |-> 0]
               /\ cobs' = [cobs EXCEPT !.built = Count(@, {Object("direct", "DIRECT"),
                                                            Object("reject", "REJECT")})]
          ELSE /\ res' = [res EXCEPT !.pc = "done", !.err = "general", !.config = FALSE]
               /\ UNCHANGED <<pp, cobs>>
    /\ UNCHANGED cfg

\* The duplicate check of line 582 left out.
parseProxy_NoDuplicateCheck ==
    /\ ConfigOnly
    /\ pp.pc = "proxy" /\ Len(cfg.proxies) < MaxProxies
    /\ \E name \in ProxyNames :
          /\ cfg' = [cfg EXCEPT !.proxies = Append(@, name)]
          /\ pp' = [pp EXCEPT !.proxies = Put(@, name, Object("proxy", name)),
                              !.proxyList = Append(@, name)]
          /\ cobs' = [cobs EXCEPT !.built = Count(@, {Object("proxy", name)})]
          /\ UNCHANGED res

\* parseProxies, lines 575-587: one iteration of the loop over the proxies.
parseProxy ==
    /\ ConfigOnly
    /\ pp.pc = "proxy" /\ Len(cfg.proxies) < MaxProxies
    /\ \E name \in ProxyNames, ok \in BOOLEAN :
          /\ cfg' = [cfg EXCEPT !.proxies = Append(@, name)]
          /\ IF ~ok
             THEN ReturnErr("proxy", {})
             ELSE IF name \in DOMAIN pp.proxies
             THEN ReturnErr("duplicate proxy", {Object("proxy", name)})
             ELSE /\ pp' = [pp EXCEPT !.proxies = Put(@, name, Object("proxy", name)),
                                      !.proxyList = Append(@, name)]
                  /\ cobs' = [cobs EXCEPT !.built = Count(@, {Object("proxy", name)})]
                  /\ UNCHANGED res

\* parseProxies, lines 590-596: one iteration of the loop over the groups'
\* names, entered when the proxies are exhausted.
groupName ==
    /\ ConfigOnly
    /\ pp.pc \in {"proxy", "name"} /\ Len(cfg.groups) < MaxGroups
    /\ \E mapping \in GroupMappings :
          /\ cfg' = [cfg EXCEPT !.groups = Append(@, mapping),
                                !.written = Append(@, mapping.name)]
          /\ IF mapping.name = NoName
             THEN ReturnErr("missing name", {})
             ELSE /\ pp' = [pp EXCEPT !.pc = "name",
                                      !.proxyList = Append(@, mapping.name)]
                  /\ UNCHANGED <<res, cobs>>

\* The error of proxyGroupsDagSort ignored, the groups left as they are.
dagSort_IgnoreError ==
    /\ ConfigOnly
    /\ pp.pc \in {"proxy", "name"}
    /\ pp' = [pp EXCEPT !.pc = "provider"]
    /\ UNCHANGED <<cfg, res, cobs>>

\* parseProxies, lines 598-601: sort the groups in place, or return the
\* error of the sort.
dagSort ==
    /\ ConfigOnly
    /\ pp.pc \in {"proxy", "name"}
    /\ IF proxyGroupsDagSort(cfg.groups) = {}
       THEN ReturnErr("loop", {}) /\ UNCHANGED cfg
       ELSE /\ \E sorted \in proxyGroupsDagSort(cfg.groups) :
                  cfg' = [cfg EXCEPT !.groups = sorted]
            /\ pp' = [pp EXCEPT !.pc = "provider"]
            /\ UNCHANGED <<res, cobs>>

\* parseProxies, lines 604-617: one iteration of the loop over the providers.
parseProvider ==
    /\ ConfigOnly
    /\ pp.pc = "provider"
    /\ \E name \in ProviderNames \ cfg.providers, ok \in BOOLEAN,
          vt \in {"File", "Compatible"} :
          /\ cfg' = [cfg EXCEPT !.providers = @ \cup {name}]
          /\ IF name = ReservedName
             THEN ReturnErr("reserved name", {})
             ELSE IF ~ok
             THEN ReturnErr("provider", {})
             ELSE /\ pp' = [pp EXCEPT !.providersMap =
                               Put(@, name, [vehicle |-> vt, initial |-> 0])]
                  /\ cobs' = [cobs EXCEPT !.built = Count(@, {Object("provider", name)})]
                  /\ UNCHANGED res

\* parseProxies, lines 619-626: Initial of every provider, up to the first
\* that fails, in the order the map yields them.
initialProviders ==
    /\ ConfigOnly
    /\ pp.pc = "provider"
    /\ \E done \in SUBSET DOMAIN pp.providersMap, failed \in BOOLEAN :
          /\ failed <=> done # DOMAIN pp.providersMap
          /\ IF failed
             THEN ReturnErr("initial", {})
             ELSE /\ pp' = [pp EXCEPT !.pc = "group",
                               !.providersMap = [n \in DOMAIN @ |->
                                                    [@[n] EXCEPT !.initial = 1]]]
                  /\ UNCHANGED <<res, cobs>>
    /\ UNCHANGED cfg

\* parseProxies, lines 629-641: one iteration of the loop over the groups.
parseGroup ==
    /\ ConfigOnly
    /\ pp.pc = "group" /\ pp.i < Len(cfg.groups)
    /\ LET mapping == cfg.groups[pp.i + 1]
           group == Object("group", mapping.name)
       IN  IF ParseProxyGroupFails(mapping, pp.proxies)
           THEN ReturnErr("group", {})
           ELSE IF mapping.name \in DOMAIN pp.proxies
           THEN ReturnErr("duplicate group", {group})
           ELSE /\ pp' = [pp EXCEPT !.proxies = Put(@, mapping.name, group),
                                    !.i = @ + 1]
                /\ cobs' = [cobs EXCEPT !.built = Count(@, {group})]
                /\ UNCHANGED res
    /\ UNCHANGED cfg

\* GLOBAL built over the groups in the order the sort left them in.
parseProxiesEnd_SortedOrder ==
    /\ ConfigOnly
    /\ pp.pc = "group" /\ pp.i = Len(cfg.groups)
    /\ \E ok \in BOOLEAN :
          /\ ~ok => \E n \in DOMAIN pp.providersMap :
                       pp.providersMap[n].vehicle = "Compatible"
          /\ IF ~ok
             THEN ReturnErr("compatible", {})
             ELSE LET list == <<"DIRECT", "REJECT">> \o cfg.proxies \o
                                  [k \in DOMAIN cfg.groups |-> cfg.groups[k].name]
                      ps == [k \in DOMAIN list |-> pp.proxies[list[k]]]
                      new == {Object("provider", ReservedName), Object("global", "GLOBAL")}
                  IN  /\ res' = [res EXCEPT
                             !.pc = "rest",
                             !.Proxies = Put(pp.proxies, "GLOBAL", Object("global", "GLOBAL")),
                             !.Providers = Put(pp.providersMap, ReservedName,
                                               [vehicle |-> "Compatible", initial |-> 0]),
                             !.global = ps]
                      /\ pp' = NoFrame
                      /\ cobs' = [cobs EXCEPT !.built = Count(@, new)]
    /\ UNCHANGED cfg

\* parseProxies, lines 644-673, and ParseRawConfig, lines 446-447: Initial
\* of the compatible providers, the provider of all proxies under the
\* reserved name, the GLOBAL selector over it; then config.Proxies and
\* config.Providers are set.
parseProxiesEnd ==
    /\ ConfigOnly
    /\ pp.pc = "group" /\ pp.i = Len(cfg.groups)
    /\ \E ok \in BOOLEAN :
          /\ ~ok => \E n \in DOMAIN pp.providersMap :
                       pp.providersMap[n].vehicle = "Compatible"
          /\ IF ~ok
             THEN ReturnErr("compatible", {})
             ELSE LET ps == [k \in DOMAIN pp.proxyList |-> pp.proxies[pp.proxyList[k]]]
                      new == {Object("provider", ReservedName), Object("global", "GLOBAL")}
                  IN  /\ res' = [res EXCEPT
                             !.pc = "rest",
                             !.Proxies = Put(pp.proxies, "GLOBAL", Object("global", "GLOBAL")),
                             !.Providers = Put(pp.providersMap, ReservedName,
                                               [vehicle |-> "Compatible", initial |-> 0]),
                             !.global = ps]
                      /\ pp' = NoFrame
                      /\ cobs' = [cobs EXCEPT !.built = Count(@, new)]
    /\ UNCHANGED cfg

\* ParseRawConfig, lines 449-509 and 420-424: the later stages; the first
\* that fails makes the deferred function clean up config.Proxies and
\* config.Providers and set config to nil.
parseRest ==
    /\ ConfigOnly
    /\ res.pc = "rest"
    /\ \E e \in LaterStages \cup {"nil"} :
          IF e = "nil"
          THEN /\ res' = [res EXCEPT !.pc = "done"]
               /\ UNCHANGED cobs
          ELSE /\ res' = [res EXCEPT !.pc = "done", !.err = e, !.config = FALSE]
               /\ cobs' = [cobs EXCEPT !.cleaned =
                              Count(@, Cleanup(res.Proxies, res.Providers))]
    /\ UNCHANGED <<cfg, pp>>

ConfigNext ==
    \/ parseGeneral
    \/ parseProxy
    \/ groupName
    \/ dagSort
    \/ parseProvider
    \/ initialProviders
    \/ parseGroup
    \/ parseProxiesEnd
    \/ parseRest

(***************************************************************************)
(* Claims about configuration loading.                                     *)
(***************************************************************************)
\* parseProxies has accepted the configuration in cfg.
Accepted == res.pc \in {"rest", "done"} /\ res.err \in {"nil"} \cup LaterStages

\* The names the configuration declares, proxies then groups.
DeclaredNames == cfg.proxies \o [k \in DOMAIN cfg.groups |-> cfg.groups[k].name]

\* C8 as stated: in an accepted configuration no two declared names are the
\* same, none is DIRECT, REJECT or GLOBAL, and every declared proxy and group
\* is in the resulting proxy map under its name.
C8_CollisionsRejected ==
    (Accepted /\ res.pc = "rest") =>
        /\ \A i, j \in DOMAIN DeclaredNames : DeclaredNames[i] = DeclaredNames[j] => i = j
        /\ \A i \in DOMAIN DeclaredNames :
              DeclaredNames[i] \notin {"DIRECT", "REJECT", "GLOBAL"}
        /\ \A i \in DOMAIN cfg.proxies :
              res.Proxies[cfg.proxies[i]] = Object("proxy", cfg.proxies[i])
        /\ \A i \in DOMAIN cfg.groups :
              res.Proxies[cfg.groups[i].name] = Object("group", cfg.groups[i].name)

\* C9: in the proxy map of every accepted configuration DIRECT is the
\* built-in direct adapter, REJECT the built-in reject adapter and GLOBAL the
\* built-in selector.
C9_BuiltinsBound ==
    Accepted =>
        /\ {"DIRECT", "REJECT", "GLOBAL"} \subseteq DOMAIN res.Proxies
        /\ res.Proxies["DIRECT"] = Object("direct", "DIRECT")
        /\ res.Proxies["REJECT"] = Object("reject", "REJECT")
        /\ res.Proxies["GLOBAL"] = Object("global", "GLOBAL")

\* An accepted configuration that declares a proxy and a group, one of them
\* under the name GLOBAL.
C9_Witness ==
    /\ Accepted /\ res.pc = "rest"
    /\ Len(cfg.proxies) >= 1 /\ Len(cfg.groups) >= 1
    /\ \E i \in DOMAIN DeclaredNames : DeclaredNames[i] = "GLOBAL"

\* The kinds of the objects constructed so far.
BuiltKinds == {o.kind : o \in DOMAIN cobs.built}

\* C10: with a loop among the groups parseProxies goes no further than the
\* sort; when the sort reports the loop no provider has been parsed or
\* initialised and no group constructed, every proxy built has been cleaned
\* up, and ParseRawConfig returns an error and no config.
C10_LoopAbortsLoad ==
    /\ (pp.pc \in {"provider", "group"} \/ Accepted) => ~HasLoop(cfg.groups)
    /\ res.err = "loop" =>
          /\ res.pc = "done" /\ ~res.config
          /\ res.Proxies = <<>> /\ res.Providers = <<>>
          /\ cfg.providers = {}
          /\ BuiltKinds \subseteq {"direct", "reject", "proxy"}
          /\ \A o \in DOMAIN cobs.built : o \in DOMAIN cobs.cleaned /\ cobs.cleaned[o] = 1

\* Two groups that list each other, after a declared proxy: the load failed
\* on the loop.
C10_Witness ==
    /\ res.err = "loop"
    /\ Len(cfg.proxies) >= 1 /\ Len(cfg.groups) = 2
    /\ cfg.groups[1].name # cfg.groups[2].name
    /\ cfg.groups[2].name \in cfg.groups[1].proxies
    /\ cfg.groups[1].name \in cfg.groups[2].proxies

\* C19: GLOBAL's members are, in this order, DIRECT, REJECT, the declared
\* proxies and the declared groups as the configuration file lists them, and
\* every entry of the proxy map other than GLOBAL is among them exactly once.
C19_GlobalReferencesAll ==
    (Accepted /\ res.err = "nil") =>
        LET names == <<"DIRECT", "REJECT">> \o cfg.proxies \o cfg.written
            kind(k) == IF k = 1 THEN "direct" ELSE IF k = 2 THEN "reject"
                       ELSE IF k <= 2 + Len(cfg.proxies) THEN "proxy" ELSE "group"
        IN  /\ Len(res.global) = Len(names)
            /\ \A k \in DOMAIN names : res.global[k] = Object(kind(k), names[k])
            /\ \A n \in DOMAIN res.Proxies \ {"GLOBAL"} :
                  Cardinality({k \in DOMAIN res.global : res.global[k] = res.Proxies[n]}) = 1

\* An accepted configuration with a proxy and two groups that the sort has
\* put in another order than the file's.
C19_Witness ==
    /\ Accepted /\ res.err = "nil"
    /\ Len(cfg.proxies) >= 1 /\ Len(cfg.groups) = 2
    /\ cfg.groups[1].name # cfg.written[1]

\* C11 as stated: when ParseRawConfig has returned an error it has returned
\* no config, and every proxy and provider constructed during the parse has
\* had Cleanup run on it exactly once.
C11_FailedLoadCleansUp ==
    (res.pc = "done" /\ res.err # "nil") =>
        /\ ~res.config
        /\ \A o \in DOMAIN cobs.built :
              /\ cobs.built[o] = 1
              /\ o \in DOMAIN cobs.cleaned /\ cobs.cleaned[o] = 1

(***************************************************************************)
(*              PART IV: THE API SERVER'S AUTHENTICATION                   *)
(***************************************************************************)
\* Strings are sequences of symbols: the word Bearer, a space, and the
\* characters of tokens.
TokenChars == {"s", "t"}
HeaderChars == {"Bearer", " "} \cup TokenChars
Strings(chars, n) == UNION {[1..k -> chars] : k \in 0..n}

\* A request: whether it is a WebSocket upgrade, its Authorization header and
\* its token query parameter (empty when absent).
Requests == [ws : BOOLEAN, header : Strings(HeaderChars, MaxHeaderLen),
             query : Strings(TokenChars \cup {" "}, MaxTokenLen)]

\* strings.Cut(s, " "): the text before and after the first space.
Cut(s) ==
    IF \E i \in DOMAIN s : s[i] = " "
    THEN LET i == CHOOSE k \in DOMAIN s : s[k] = " " /\ \A j \in 1..(k - 1) : s[j] # " "
         IN  [before |-> SubSeq(s, 1, i - 1), after |-> SubSeq(s, i + 1, Len(s)),
              found |-> TRUE]
    ELSE [before |-> s, after |-> <<>>, found |-> FALSE]

StatusUnauthorized == 401

\* next.ServeHTTP(w, r).
Pass == [next |-> 1, status |-> 0]

\* render.Status(r, http.StatusUnauthorized); render.JSON(w, r, ErrUnauthorized).
Unauthorized == [next |-> 0, status |-> StatusUnauthorized]

\* The comparison with serverSecret left out of the header branch.
authentication_NoCompare(serverSecret, r) ==
    IF Len(serverSecret) = 0 THEN Pass
    ELSE IF r.ws /\ r.query # <<>>
    THEN IF r.query # serverSecret THEN Unauthorized ELSE Pass
    ELSE LET cut == Cut(r.header)
             found == IF r.header = <<>> /\ r.query # <<>> THEN TRUE ELSE cut.found
             hasInvalidHeader == r.header # <<>> /\ cut.before # <<"Bearer">>
         IN  IF hasInvalidHeader \/ ~found THEN Unauthorized ELSE Pass

\* authentication, lines 168-205: what the middleware does with request r.
authentication(serverSecret, r) ==
    IF Len(serverSecret) = 0 THEN Pass
    ELSE IF r.ws /\ r.query # <<>>
    THEN IF r.query # serverSecret THEN Unauthorized ELSE Pass
    ELSE LET cut == Cut(r.header)
             token == IF r.header = <<>> THEN r.query ELSE cut.after
             found == IF r.header = <<>> /\ r.query # <<>> THEN TRUE ELSE cut.found
             hasInvalidHeader == r.header # <<>> /\ cut.before # <<"Bearer">>
             hasInvalidSecret == ~found \/ token # serverSecret
         IN  IF hasInvalidHeader \/ hasInvalidSecret THEN Unauthorized ELSE Pass

\* Start, lines 62-69, has set serverSecret; no request has been served.
AuthInit ==
    /\ \E secret \in Strings(TokenChars \cup {" "}, MaxTokenLen) :
          auth = [serverSecret |-> secret, served |-> FALSE,
                  r |-> [ws |-> FALSE, header |-> <<>>, query |-> <<>>],
                  did |-> [next |-> 0, status |-> 0]]
    \* the other parts stand still
    /\ f = <<>> /\ vehicle = <<>> /\ file = <<>> /\ now = 0
    /\ rt = <<>> /\ pc = <<>> /\ obs = <<>>
    /\ d = <<>> /\ net = <<>> /\ call = <<>> /\ dobs = <<>>
    /\ cfg = <<>> /\ pp = <<>> /\ res = <<>> /\ cobs = <<>>
    /\ doh = <<>> /\ http = <<>> /\ rules = <<>>
    /\ dns = <<>> /\ verify = <<>> /\ tun = <<>>

\* A request to a route of the protected group reaches the middleware. One
\* request is followed: the middleware keeps nothing from one to the next.
ServeHTTP ==
    /\ UNCHANGED <<fvars, dvars, cvars, hvars, ovars, rvars, dns, verify, tun>>
    /\ ~auth.served
    /\ \E r \in Requests :
          auth' = [auth EXCEPT !.served = TRUE, !.r = r,
                               !.did = authentication(auth.serverSecret, r)]

AuthNext ==
    \/ ServeHTTP

(***************************************************************************)
(* Claims about the authentication middleware.                             *)
(***************************************************************************)
\* The request carries the secret as `Authorization: Bearer <token>` or as
\* the token query parameter.
CarriesSecret ==
    \/ auth.r.header = <<"Bearer", " ">> \o auth.serverSecret
    \/ auth.r.query = auth.serverSecret

\* C12: with a non-empty secret a request is passed on only if it carries a
\* token equal to the secret, in the Authorization header after Bearer or as
\* the token query parameter, and is answered 401 and not passed on
\* otherwise; with an empty secret every request is passed on; whether or
\* not it is a WebSocket upgrade.
C12_AuthenticationGuards ==
    auth.served =>
        /\ auth.did \in {Pass, Unauthorized}
        /\ Len(auth.serverSecret) = 0 => auth.did = Pass
        /\ (Len(auth.serverSecret) > 0 /\ auth.did = Pass) => CarriesSecret
        /\ (Len(auth.serverSecret) > 0 /\ ~CarriesSecret) => auth.did = Unauthorized

\* A WebSocket upgrade with a secret set, a header that is not the secret's
\* and the secret in the query is passed on; a plain request with the right
\* header too.
C12_Witness ==
    /\ auth.served /\ Len(auth.serverSecret) > 0 /\ auth.did = Pass
    /\ auth.r.ws /\ auth.r.query = auth.serverSecret
    /\ auth.r.header # <<>> /\ auth.r.header # <<"Bearer", " ">> \o auth.serverSecret

(***************************************************************************)
(*                       PART V: THE DoH CLIENT                            *)
(***************************************************************************)
\* The proxy setting of a client or of a query: none (""), or a name.
NoProxy == ""
ProxySettings == {NoProxy, "px", "py"}

\* The shared transport dials a connection instead of taking one it keeps.
NewConn == "new"

\* No exchange has been made.
NoExchange == [proxy |-> NoProxy, hasProxy |-> FALSE, transport |-> "none",
               via |-> NoProxy, reused |-> FALSE, closed |-> FALSE, err |-> FALSE]

\* newDoHClient: the client with its proxy setting and its shared transport,
\* which holds no connection yet. doh.known is the set of names
\* tunnel.FindProxyByName finds; doh.idle, the connections the shared
\* transport keeps, each marked with the proxy key it was dialed under.
\* doh.url and doh.addr are the hosts in dc.url and in dc.addr, the host of
\* the server's URL at first, and dc.resolved is set if that is an IP
\* address; doh.ex is where each call of ExchangeContext stands in
\* lines 48-64, with the IP address it has picked ("start": it has not
\* been made, or it has returned and is made again).
DohInit ==
    /\ \E p \in ProxySettings, host \in {"dns.example", "ip1"} :
          doh = [proxy |-> p, known |-> {}, idle |-> {}, last |-> NoExchange,
                 url |-> host, addr |-> host, resolved |-> host = "ip1",
                 ex |-> [g \in 1..NumExchanges |-> [pc |-> "start", ip |-> ""]]]
    \* the other parts stand still
    /\ f = <<>> /\ vehicle = <<>> /\ file = <<>> /\ now = 0
    /\ rt = <<>> /\ pc = <<>> /\ obs = <<>>
    /\ d = <<>> /\ net = <<>> /\ call = <<>> /\ dobs = <<>>
    /\ cfg = <<>> /\ pp = <<>> /\ res = <<>> /\ cobs = <<>>
    /\ auth = <<>> /\ http = <<>> /\ rules = <<>>
    /\ dns = <<>> /\ verify = <<>> /\ tun = <<>>

DohOnly == UNCHANGED <<fvars, dvars, cvars, avars, ovars, rvars, dns, verify, tun>>

\* doRequest, lines 121-160: with hasProxy, a connection dialed by getConn
\* under the proxy key, a transport of its own, and the connection closed on
\* return; otherwise the shared transport, which takes a connection it keeps
\* or dials one by getConn, and may keep it afterwards. ok: the dial and the
\* request succeed; c: the kept connection the shared transport takes, or
\* NewConn; keep: it keeps the connection afterwards.
doRequest(proxy, hasProxy, ok, c, keep) ==
    IF hasProxy
    THEN [idle |-> doh.idle,
          last |-> [proxy |-> proxy, hasProxy |-> TRUE, transport |-> "oneshot",
                    via |-> proxy, reused |-> FALSE, closed |-> TRUE, err |-> ~ok]]
    ELSE IF c # NewConn
    THEN [idle |-> IF keep /\ ok THEN doh.idle ELSE doh.idle \ {c},
          last |-> [proxy |-> proxy, hasProxy |-> FALSE, transport |-> "shared",
                    via |-> c, reused |-> TRUE, closed |-> ~(keep /\ ok),
                    err |-> ~ok]]
    ELSE [idle |-> IF keep /\ ok THEN doh.idle \cup {proxy} ELSE doh.idle,
          last |-> [proxy |-> proxy, hasProxy |-> FALSE, transport |-> "shared",
                    via |-> proxy, reused |-> FALSE, closed |-> ~(keep /\ ok),
                    err |-> ~ok]]

\* ExchangeContext, lines 75-96, in the call g: the proxy of the query, else
\* of the client; hasProxy when tunnel.FindProxyByName finds it; then
\* doRequest, and the call returns.
ExchangeContext(g) ==
    /\ DohOnly
    /\ doh.ex[g].pc = "request"
    /\ \E p \in ProxySettings, ok, keep \in BOOLEAN, c \in doh.idle \cup {NewConn} :
          LET proxy == IF p # NoProxy THEN p ELSE doh.proxy
              hasProxy == proxy # NoProxy /\ proxy \in doh.known
              x == doRequest(proxy, hasProxy, ok, c, keep)
          IN  doh' = [doh EXCEPT !.idle = x.idle, !.last = x.last,
                                 !.ex[g] = [pc |-> "start", ip |-> ""]]

\* ExchangeContext, lines 48-53, in the call g: with dc.resolved not set,
\* the host of dc.addr is looked up; the lookup fails and the call returns,
\* or it gives IP addresses, of which line 57 picks one at random.
lookupHost(g) ==
    /\ DohOnly
    /\ doh.ex[g].pc = "start"
    /\ IF doh.resolved
       THEN doh' = [doh EXCEPT !.ex[g].pc = "request"]
       ELSE \E ip \in {"", "ip1", "ip2"} :
               doh' = [doh EXCEPT !.ex[g] = IF ip = "" THEN [pc |-> "start", ip |-> ""]
                                            ELSE [pc |-> "check", ip |-> ip]]

\* ExchangeContext, lines 55-63, in the call g, which holds no lock: the
\* second test of dc.resolved, then the writes of dc.url, of dc.addr and of
\* dc.resolved, one after the other.
storeHost(g) ==
    /\ DohOnly
    /\ doh.ex[g].pc \in {"check", "url", "addr", "resolved"}
    /\ doh' = CASE doh.ex[g].pc = "check" ->
                    [doh EXCEPT !.ex[g].pc = IF doh.resolved THEN "request" ELSE "url"]
               [] doh.ex[g].pc = "url" ->
                    [doh EXCEPT !.url = doh.ex[g].ip, !.ex[g].pc = "addr"]
               [] doh.ex[g].pc = "addr" ->
                    [doh EXCEPT !.addr = doh.ex[g].ip, !.ex[g].pc = "resolved"]
               [] doh.ex[g].pc = "resolved" ->
                    [doh EXCEPT !.resolved = TRUE, !.ex[g].pc = "request"]

\* The shared transport closes a connection it kept (IdleConnTimeout, or the
\* server closed it).
IdleClose ==
    /\ DohOnly
    /\ \E c \in doh.idle : doh' = [doh EXCEPT !.idle = @ \ {c}]

\* The tunnel's proxies change (a configuration or a provider is loaded).
UpdateProxies ==
    /\ DohOnly
    /\ \E known \in SUBSET (ProxySettings \ {NoProxy}) :
          /\ known # doh.known
          /\ doh' = [doh EXCEPT !.known = known]

DohNext ==
    \/ \E g \in 1..NumExchanges : lookupHost(g)
    \/ \E g \in 1..NumExchanges : storeHost(g)
    \/ \E g \in 1..NumExchanges : ExchangeContext(g)
    \/ IdleClose
    \/ UpdateProxies

(***************************************************************************)
(* Claims about the DoH client.                                            *)
(***************************************************************************)
\* C17 as stated: an exchange made with a proxy set, by the client or by the
\* query, goes over a transport of its own on a connection dialed for it and
\* closed at the end, never over the shared transport.
C17_ProxyExchangeOneShot ==
    (doh.last.transport # "none" /\ doh.last.proxy # NoProxy) =>
        /\ doh.last.transport = "oneshot"
        /\ ~doh.last.reused /\ doh.last.closed

\* C28 as stated: when the concurrent calls of ExchangeContext are past
\* the resolving of the server's host, the host in dc.url is that of
\* dc.addr, and neither field is written once dc.resolved is set.
C28_EndpointConsistent ==
    [][/\ (doh'.resolved /\ \A g \in 1..NumExchanges :
                                doh'.ex[g].pc \in {"start", "request"})
             => doh'.url = doh'.addr
       /\ doh.resolved => doh'.url = doh.url /\ doh'.addr = doh.addr]_vars

(***************************************************************************)
(*                     PART VI: THE HTTP OUTBOUND                          *)
(***************************************************************************)
\* What LookupECHForProxyServer gives: an ECH config list, ErrECHNotFound,
\* an error wrapping ErrECHNotSupport (the DHCP client refuses a query of
\* type HTTPS), or any other error of the resolver.
LookupOutcomes == {"ok", "notfound", "notsupport", "error"}

\* dhcpClient.ExchangeContext, lines 49-52: a question of type HTTPS is
\* answered with ErrECHNotSupport without resolving.
dhcpExchangeRefuses(qtype) == qtype = "HTTPS"

\* The TLS handshake succeeds or fails; the proxy answers the CONNECT request
\* with a status, or writing the request or reading the response fails.
HandshakeOutcomes == {"ok", "fail"}
ConnectOutcomes == {"200", "407", "405", "5xx", "other", "write", "read"}

\* resolver.SetECHConfigList(cfg): whether cfg got an ECH config list, and
\* the value returned.
SetECHConfigList(lookup) ==
    IF lookup # "ok"
    THEN [ech |-> FALSE, ret |-> lookup \notin {"notfound", "notsupport"}]
    ELSE [ech |-> TRUE, ret |-> TRUE]

\* shakeHand: the error it returns, if any.
shakeHand(resp) == resp # "200"

\* StreamConn with a failed ECH lookup returned as the connection's error.
StreamConn_LookupFatal(h, lookup, hs, resp) ==
    IF h.tls /\ h.useECH /\ lookup # "ok"
    THEN [useECH |-> FALSE, lookup |-> lookup, ech |-> FALSE, handshake |-> "none",
          connect |-> "none", err |-> TRUE]
    ELSE [useECH |-> h.useECH, lookup |-> IF h.tls /\ h.useECH THEN lookup ELSE "none",
          ech |-> h.tls /\ h.useECH,
          handshake |-> IF h.tls THEN hs ELSE "none",
          connect |-> IF h.tls /\ hs = "fail" THEN "none" ELSE resp,
          err |-> (h.tls /\ hs = "fail") \/ shakeHand(resp)]

\* Http.StreamConn, lines 114-137, on the outbound h: the lookup made (none
\* without TLS or with useECH off), whether the handshake's config holds an
\* ECH config list, the handshake, the CONNECT exchange, the error returned
\* and h.useECH afterwards.
StreamConn(h, lookup, hs, resp) ==
    IF ~h.tls
    THEN [useECH |-> h.useECH, lookup |-> "none", ech |-> FALSE, handshake |-> "none",
          connect |-> resp, err |-> shakeHand(resp)]
    ELSE LET set == IF h.useECH THEN SetECHConfigList(lookup)
                    ELSE [ech |-> FALSE, ret |-> FALSE]
         IN  [useECH |-> set.ret,
              lookup |-> IF h.useECH THEN lookup ELSE "none",
              ech |-> set.ech,
              handshake |-> hs,
              connect |-> IF hs = "fail" THEN "none" ELSE resp,
              err |-> hs = "fail" \/ shakeHand(resp)]

\* safeConnClose(c, err): the connection is closed when err is not nil.
safeConnClose(err) == err

\* No connection has been dialed.
NoDial == [dialed |-> FALSE, lookup |-> "none", ech |-> FALSE, handshake |-> "none",
           connect |-> "none", err |-> FALSE, closed |-> FALSE]

\* NewHttp: with or without TLS, useECH set. http.dials counts the calls of
\* DialContext, http.open the connections dialed and not closed by it.
HttpInit ==
    /\ \E tls \in BOOLEAN :
          http = [tls |-> tls, useECH |-> TRUE, dials |-> 0, open |-> 0, last |-> NoDial]
    \* the other parts stand still
    /\ f = <<>> /\ vehicle = <<>> /\ file = <<>> /\ now = 0
    /\ rt = <<>> /\ pc = <<>> /\ obs = <<>>
    /\ d = <<>> /\ net = <<>> /\ call = <<>> /\ dobs = <<>>
    /\ cfg = <<>> /\ pp = <<>> /\ res = <<>> /\ cobs = <<>>
    /\ auth = <<>> /\ doh = <<>> /\ rules = <<>>
    /\ dns = <<>> /\ verify = <<>> /\ tun = <<>>

\* Http.DialContext, lines 140-157: dial; defer safeConnClose(c, err), its
\* arguments evaluated at the defer statement, where err is nil; StreamConn.
DialContext ==
    /\ UNCHANGED <<fvars, dvars, cvars, avars, hvars, rvars, dns, verify, tun>>
    /\ http.dials < MaxDials
    /\ \E dial \in BOOLEAN, lookup \in LookupOutcomes, hs \in HandshakeOutcomes,
          resp \in ConnectOutcomes :
          IF ~dial
          THEN http' = [http EXCEPT !.dials = @ + 1, !.last = [NoDial EXCEPT !.err = TRUE]]
          ELSE LET deferred == FALSE
                   s == StreamConn(http, lookup, hs, resp)
                   closed == safeConnClose(deferred)
               IN  http' = [http EXCEPT
                       !.useECH = s.useECH,
                       !.dials = @ + 1,
                       !.open = IF closed THEN @ ELSE @ + 1,
                       !.last = [dialed |-> TRUE, lookup |-> s.lookup, ech |-> s.ech,
                                 handshake |-> s.handshake, connect |-> s.connect,
                                 err |-> s.err, closed |-> closed]]

\* A connection returned by DialContext, or left open by it, is closed by
\* its user or by the peer.
ConnClose ==
    /\ UNCHANGED <<fvars, dvars, cvars, avars, hvars, rvars, dns, verify, tun>>
    /\ http.open > 0
    /\ http' = [http EXCEPT !.open = @ - 1]

HttpNext ==
    \/ DialContext
    \/ ConnClose

(***************************************************************************)
(* Claims about the HTTP outbound.                                         *)
(***************************************************************************)
\* C18: when the ECH lookup fails, by ErrECHNotFound, by ErrECHNotSupport
\* (which the DHCP client returns on a question of type HTTPS) or by any
\* other error, StreamConn still makes the TLS handshake, with a config that
\* holds no ECH config list, and returns an error only when the handshake or
\* the CONNECT exchange fails.
C18_EchLookupFailureTolerated ==
    /\ dhcpExchangeRefuses("HTTPS") /\ ~dhcpExchangeRefuses("A")
    /\ http.last.lookup \in {"notfound", "notsupport", "error"} =>
          /\ http.last.handshake # "none" /\ ~http.last.ech
          /\ http.last.err <=>
                (http.last.handshake = "fail" \/ shakeHand(http.last.connect))
          /\ (http.last.handshake = "ok" /\ http.last.connect = "200") => ~http.last.err

\* The lookup was refused as unsupported and the connection was made.
C18_Witness ==
    /\ http.last.lookup = "notsupport" /\ http.last.handshake = "ok"
    /\ http.last.connect = "200" /\ ~http.last.err /\ ~http.last.ech

\* C26 as stated: when DialContext returns an error after it has dialed,
\* the connection it dialed has been closed.
C26_FailedDialClosesConn ==
    http.last.dialed /\ http.last.err => http.last.closed

(***************************************************************************)
(*                      PART VII: PARSING THE RULES                        *)
(***************************************************************************)
\* C.ScriptRuleGeoSiteTarget, the target of the rule providers of scripts.
ScriptRuleGeoSiteTarget == "script-geosite"

\* A rule line as strings.Split and trimArr leave it: the rule's name and up
\* to two more fields, a payload and a target ("nx" names no proxy).
RuleLines ==
    LET names == {"DOMAIN", "GEOSITE", "MATCH"}
        targets == {"DIRECT", "nx", ScriptRuleGeoSiteTarget}
    IN  {<<t>> : t \in names} \cup
        {<<t, x>> : t \in names, x \in targets} \cup
        {<<t, "Geo", x>> : t \in names, x \in targets}

\* strings.ToLower on the names of rule providers.
ToLower(s) == IF s = "Geo" THEN "geo" ELSE s

\* A parsed rule: a group has its name as payload and its rules in sub.
Rule(type, payload, target, sub) ==
    [type |-> type, payload |-> payload, target |-> target, groups |-> <<>>, sub |-> sub]

\* appendRuleGroupName without the descent of line 825 into the rules of
\* a group.
appendRuleGroupName_NoDescent(subRules, gName) ==
    [i \in DOMAIN subRules |-> [subRules[i] EXCEPT !.groups = Append(@, gName)]]

\* appendRuleGroupName(subRules, groupName), lines 819-827 (gName is its
\* groupName).
RECURSIVE appendRuleGroupName(_, _)
appendRuleGroupName(subRules, gName) ==
    [i \in DOMAIN subRules |->
        [subRules[i] EXCEPT
            !.groups = Append(@, gName),
            !.sub = IF subRules[i].type = "GROUP"
                    THEN appendRuleGroupName(@, gName) ELSE @]]

\* The rule that a line is parsed to, lines 752-811: the fields are padded
\* to four; MATCH has its target second; with three fields or more the
\* payload is second and the target third.
LineRule(line) ==
    LET l0 == Len(line)
        rule == line \o [k \in 1..(4 - l0) |-> ""]
        l == IF line[1] = "MATCH" THEN 2 ELSE IF l0 >= 3 THEN 3 ELSE l0
    IN  Rule(line[1], IF l >= 3 THEN rule[2] ELSE "", rule[l], <<>>)

\* Line 782: the error "proxy not found".
TargetNotFound(proxies, r) ==
    /\ r.target \notin proxies
    /\ r.type # "GEOSITE"
    /\ r.target # ScriptRuleGeoSiteTarget

\* parseRules is called with the parsed proxy map, no rule provider and no
\* rule read; rules.script is the rule providers that the main script and
\* the shortcuts name, for each of which parseScript (lines 1229-1233) has
\* appended the line GEOSITE,v,target to the raw rules, and rules.pending
\* those whose line is still to be parsed; rules.named is the rule providers
\* that the `if` of the groups read so far name; rules.stack holds, for the list of rules being parsed at each
\* depth, the group it belongs to, the rules parsed so far, and whether a raw
\* rule of the list was read (RawRule.UnmarshalYAML, line 277, refuses a
\* group without rules).
RulesInit ==
    /\ \E script \in {{}, {"Geo"}} :
       rules = [proxies |-> {"DIRECT", "REJECT", "GLOBAL"},
                script |-> script, pending |-> script, named |-> {},
                stack |-> <<[name |-> "", if |-> {}, rules |-> <<>>, raw |-> FALSE]>>,
                matchers |-> {}, ruleProviders |-> {},
                n |-> 0, pc |-> "run", out |-> <<>>]
    \* the other parts stand still
    /\ f = <<>> /\ vehicle = <<>> /\ file = <<>> /\ now = 0
    /\ rt = <<>> /\ pc = <<>> /\ obs = <<>>
    /\ d = <<>> /\ net = <<>> /\ call = <<>> /\ dobs = <<>>
    /\ cfg = <<>> /\ pp = <<>> /\ res = <<>> /\ cobs = <<>>
    /\ auth = <<>> /\ doh = <<>> /\ http = <<>>
    /\ dns = <<>> /\ verify = <<>> /\ tun = <<>>

RulesOnly == UNCHANGED <<fvars, dvars, cvars, avars, hvars, ovars, dns, verify, tun>>

\* parseRawRules returns an error, and so does every call above it.
RulesErr == [rules EXCEPT !.pc = "err", !.stack = <<>>, !.out = <<>>]

\* parseRawRules, lines 697-703: a raw rule with no line and no name.
skipEmpty ==
    /\ RulesOnly
    /\ rules.pc = "run" /\ rules.n < MaxRawRules /\ rules.pending = rules.script
    /\ rules' = [rules EXCEPT !.n = @ + 1, !.stack[Len(rules.stack)].raw = TRUE]

\* parseRawRules, lines 752-813: a raw rule with a line, its name in upper
\* case, either a line of the configuration or, after all of these, a line
\* that parseScript appended; `parsed` is whether R.ParseRule returns a rule
\* and, for a script rule, whether its matcher is found.
parseLine ==
    /\ RulesOnly
    /\ rules.pc = "run"
    /\ \E appended, parsed \in BOOLEAN :
       \E line \in IF appended
                   THEN {<<"GEOSITE", v, ScriptRuleGeoSiteTarget>> : v \in rules.pending}
                   ELSE RuleLines :
          LET r == LineRule(line)
              foundRP == ToLower(r.payload) \in rules.ruleProviders
              read == [rules EXCEPT
                          !.n = IF appended THEN @ ELSE @ + 1,
                          !.pending = IF appended THEN @ \ {line[2]} ELSE @,
                          !.stack[Len(rules.stack)].raw = TRUE]
          IN  /\ IF appended THEN Len(rules.stack) = 1
                  ELSE rules.n < MaxRawRules /\ rules.pending = rules.script
              /\ IF Len(line) < 2 \/ TargetNotFound(rules.proxies, r)
                 THEN rules' = RulesErr
                 ELSE IF r.type = "GEOSITE" /\ r.target = ScriptRuleGeoSiteTarget /\ foundRP
                 THEN rules' = read
                 ELSE IF ~parsed
                 THEN rules' = RulesErr
                 ELSE rules' = [read EXCEPT
                                   !.stack[Len(rules.stack)].rules = Append(@, r),
                                   !.ruleProviders =
                                       IF r.type = "GEOSITE" /\ ~foundRP
                                       THEN @ \cup {ToLower(r.payload)} ELSE @]

\* openGroup without the check of lines 704-707 that the name is new.
openGroup_NoNameCheck ==
    /\ RulesOnly
    /\ rules.pc = "run" /\ rules.n < MaxRawRules /\ Len(rules.stack) <= MaxNest
    /\ rules.pending = rules.script
    /\ \E name \in {"g", "h"}, if \in {{}, {"Geo"}}, matcher \in BOOLEAN :
          IF ~matcher
          THEN rules' = RulesErr
          ELSE rules' = [rules EXCEPT
                            !.matchers = @ \cup {"rule:" \o name},
                            !.named = @ \cup if,
                            !.stack = Append([@ EXCEPT ![Len(@)].raw = TRUE],
                                             [name |-> name, if |-> if,
                                              rules |-> <<>>, raw |-> FALSE]),
                            !.n = @ + 1]

\* parseRawRules, lines 704-726: a raw rule with a name and no line, up to
\* the call of parseRawRules on its rules; `if` is the set of rule providers
\* that raw.If names (findRuleProvidersName).
openGroup ==
    /\ RulesOnly
    /\ rules.pc = "run" /\ rules.n < MaxRawRules /\ Len(rules.stack) <= MaxNest
    /\ rules.pending = rules.script
    /\ \E name \in {"g", "h"}, if \in {{}, {"Geo"}}, matcher \in BOOLEAN :
          IF ("rule:" \o name) \in rules.matchers \/ ~matcher
          THEN rules' = RulesErr
          ELSE rules' = [rules EXCEPT
                            !.matchers = @ \cup {"rule:" \o name},
                            !.named = @ \cup if,
                            !.stack = Append([@ EXCEPT ![Len(@)].raw = TRUE],
                                             [name |-> name, if |-> if,
                                              rules |-> <<>>, raw |-> FALSE]),
                            !.n = @ + 1]

\* parseRawRules, lines 727-749: the rules of the group are parsed; they
\* get the group's name, the group is appended to the list above, and the
\* rule providers its `if` names are registered, unless NewGEOSITE fails.
closeGroup ==
    /\ RulesOnly
    /\ rules.pc = "run" /\ Len(rules.stack) > 1
    /\ rules.stack[Len(rules.stack)].raw
    /\ \E geosite \in BOOLEAN :
          LET top == rules.stack[Len(rules.stack)]
              below == Len(rules.stack) - 1
              group == Rule("GROUP", top.name, "", appendRuleGroupName(top.rules, top.name))
          IN  rules' = [rules EXCEPT
                  !.stack = [SubSeq(@, 1, below) EXCEPT ![below].rules = Append(@, group)],
                  !.ruleProviders = IF geosite THEN @ \cup {ToLower(v) : v \in top.if}
                                    ELSE @]

\* parseRawRules returns the rules of the configuration to parseRules.
finishRules ==
    /\ RulesOnly
    /\ rules.pc = "run" /\ Len(rules.stack) = 1 /\ rules.pending = {}
    /\ rules' = [rules EXCEPT !.pc = "ok", !.out = rules.stack[1].rules, !.stack = <<>>]

RulesNext ==
    \/ skipEmpty
    \/ parseLine
    \/ openGroup
    \/ closeGroup
    \/ finishRules

(***************************************************************************)
(* Claims about the rules.                                                 *)
(***************************************************************************)
\* The rules of a list and of its groups, at every depth, that are not groups.
RECURSIVE LeafRules(_)
LeafRules(rs) ==
    UNION {IF rs[i].type = "GROUP" THEN LeafRules(rs[i].sub) ELSE {rs[i]} : i \in DOMAIN rs}

\* C20 as stated: after a successful parse every rule, at any depth, has a
\* target that is in the proxy map, but for a GEOSITE rule whose target is
\* the script rule-provider target.
C20_TargetsAreProxies ==
    rules.pc = "ok" =>
        \A r \in LeafRules(rules.out) :
            \/ r.target \in rules.proxies
            \/ r.type = "GEOSITE" /\ r.target = ScriptRuleGeoSiteTarget

\* The names of the groups of a list of rules, at every depth, one for each
\* group.
RECURSIVE GroupNamesOf(_)
GroupNamesOf(rs) ==
    IF rs = <<>> THEN <<>>
    ELSE (IF Head(rs).type = "GROUP"
          THEN <<Head(rs).payload>> \o GroupNamesOf(Head(rs).sub) ELSE <<>>)
         \o GroupNamesOf(Tail(rs))

\* The names of the groups read so far: the groups that are being parsed and
\* the groups of the lists parsed so far.
RECURSIVE GroupsRead(_)
GroupsRead(k) ==
    IF k = 0 THEN <<>>
    ELSE GroupsRead(k - 1)
         \o (IF k > 1 THEN <<rules.stack[k].name>> ELSE <<>>)
         \o GroupNamesOf(rules.stack[k].rules)

AllGroupNames ==
    IF rules.pc = "ok" THEN GroupNamesOf(rules.out) ELSE GroupsRead(Len(rules.stack))

\* C21: as long as parseRawRules has not failed, no two groups of the rule
\* tree, at the same depth or at different depths, have the same name, and
\* the matchers registered are one for each group name.
C21_GroupNamesUnique ==
    rules.pc # "err" =>
        /\ \A i, j \in DOMAIN AllGroupNames :
              AllGroupNames[i] = AllGroupNames[j] => i = j
        /\ rules.matchers = {"rule:" \o AllGroupNames[i] : i \in DOMAIN AllGroupNames}

\* C21 happens: a parsed tree with a group inside a group of another name.
C21_Witness ==
    /\ rules.pc = "ok"
    /\ \E i \in DOMAIN rules.out :
          /\ rules.out[i].type = "GROUP"
          /\ \E j \in DOMAIN rules.out[i].sub :
                /\ rules.out[i].sub[j].type = "GROUP"
                /\ rules.out[i].sub[j].payload # rules.out[i].payload

\* C22 as stated: after a successful parse every rule provider that the
\* main script, a shortcut or the `if` of a group names, and every rule
\* provider of a line GEOSITE,X,target, is registered in lower case.
C22_NamedProvidersRegistered ==
    rules.pc = "ok" =>
        /\ \A v \in rules.script \cup rules.named : ToLower(v) \in rules.ruleProviders
        /\ \A r \in LeafRules(rules.out) :
              r.type = "GEOSITE" /\ r.target = ScriptRuleGeoSiteTarget
                  => ToLower(r.payload) \in rules.ruleProviders

\* Every rule of the list rs, whose enclosing groups are enc from the
\* innermost to the outermost, has enc as its group chain, and so on in
\* the groups of rs.
RECURSIVE ChainsAre(_, _)
ChainsAre(rs, enc) ==
    \A i \in DOMAIN rs :
        /\ rs[i].groups = enc
        /\ rs[i].type = "GROUP" => ChainsAre(rs[i].sub, <<rs[i].payload>> \o enc)

\* C24: after the rules are parsed, the group chain of every rule is the
\* names of its enclosing groups, each once, from the innermost to the
\* outermost, and it is empty for a top-level rule.
C24_GroupChainInnermostFirst == rules.pc = "ok" => ChainsAre(rules.out, <<>>)

\* C24 happens: a parsed rule inside a group inside a group.
C24_Witness ==
    /\ rules.pc = "ok"
    /\ \E r \in LeafRules(rules.out) : Len(r.groups) = 2 /\ r.groups[1] # r.groups[2]

(***************************************************************************)
(*                PART VIII: THE FAKE-IP FILTER OF parseDNS                *)
(***************************************************************************)
\* Strings of addresses are sequences of pieces, the colon a piece of its
\* own: "dns.example:853" is <<"dns.example", ":", "853">>, and
\* "https://dns.example/dns-query" is <<"https", ":", "//", "dns.example",
\* "/dns-query">>.

\* net.SplitHostPort: the host is what stands before the last colon and the
\* port what stands after it; an address without a colon (missing port) and
\* a host with a colon in it (too many colons) are errors, which leave host
\* and port empty.
SplitHostPort(hostport) ==
    LET colons == {i \in DOMAIN hostport : hostport[i] = ":"}
        last == CHOOSE i \in colons : \A j \in colons : j <= i
        failed == [host |-> <<>>, port |-> <<>>, err |-> TRUE]
    IN  IF colons = {} THEN failed
        ELSE IF \E j \in colons : j < last THEN failed
        ELSE [host |-> SubSeq(hostport, 1, last - 1),
              port |-> SubSeq(hostport, last + 1, Len(hostport)),
              err |-> FALSE]

\* hostWithDefaultPort, lines 855-870.
hostWithDefaultPort(host, defPort) ==
    LET split == SplitHostPort(IF \E i \in DOMAIN host : host[i] = ":"
                               THEN host ELSE host \o <<":">>)
    IN  IF split.err THEN [addr |-> <<>>, err |-> TRUE]
        ELSE [addr |-> split.host \o <<":">>
                        \o (IF split.port = <<>> THEN <<defPort>> ELSE split.port),
              err |-> FALSE]

\* parseNameServer, lines 875-922, for one server, given as url.Parse reads
\* it: its scheme (udp for a server without scheme), host name, port ("" for
\* none) and path.
NameServer(u) ==
    LET uHost == IF u.port = "" THEN <<u.host>> ELSE <<u.host, ":", u.port>>
        clearURL == <<u.scheme, ":", "//">> \o uHost \o <<"/dns-query">>
        plain(netType, defPort) ==
            LET h == hostWithDefaultPort(uHost, defPort)
            IN  [Net |-> netType, Addr |-> h.addr, err |-> h.err]
    IN  CASE u.scheme = "udp" -> plain("", "53")
          [] u.scheme = "tls" -> plain("tcp-tls", "853")
          [] u.scheme = "https" -> [Net |-> "https", Addr |-> clearURL, err |-> FALSE]
          [] u.scheme = "doh3" -> [Net |-> "http3", Addr |-> clearURL, err |-> FALSE]
          [] u.scheme = "dhcp" -> [Net |-> "dhcp", Addr |-> uHost, err |-> FALSE]
          [] OTHER -> [Net |-> "", Addr |-> <<>>, err |-> TRUE]

\* parseDNS is called; dns.ns holds the name servers parsed so far of
\* NameServer, Fallback, NameServerPolicy, ProxyServerNameserver and
\* RemoteNameserver, dns.cfg the servers of the configuration that they
\* were parsed from, and dns.stage is the one being parsed.
DnsInit ==
    /\ dns = [stage |-> 1, ns |-> [k \in 1..5 |-> <<>>], cfg |-> {},
              pc |-> "run", mode |-> "", filter |-> {}]
    \* the other parts stand still
    /\ f = <<>> /\ vehicle = <<>> /\ file = <<>> /\ now = 0
    /\ rt = <<>> /\ pc = <<>> /\ obs = <<>>
    /\ d = <<>> /\ net = <<>> /\ call = <<>> /\ dobs = <<>>
    /\ cfg = <<>> /\ pp = <<>> /\ res = <<>> /\ cobs = <<>>
    /\ auth = <<>> /\ doh = <<>> /\ http = <<>> /\ rules = <<>>
    /\ verify = <<>> /\ tun = <<>>

\* parseNameServer, lines 875-922: the next server of the list being parsed;
\* "ftp" stands for the schemes that are not supported.
parseNameServer ==
    /\ UNCHANGED <<fvars, dvars, cvars, avars, hvars, ovars, rvars, verify, tun>>
    /\ dns.pc = "run"
    /\ Len(dns.ns[1]) + Len(dns.ns[2]) + Len(dns.ns[3]) + Len(dns.ns[4]) + Len(dns.ns[5])
          < MaxServers
    /\ \E u \in [scheme : {"udp", "tls", "https", "doh3", "dhcp", "ftp"},
                 host : {"dns.example", "1.1.1.1"}, port : {"", "8443"}] :
          LET ns == NameServer(u)
          IN  IF ns.err
              THEN dns' = [dns EXCEPT !.pc = "err"]
              ELSE dns' = [dns EXCEPT
                              !.ns[dns.stage] = Append(@, [Net |-> ns.Net, Addr |-> ns.Addr]),
                              !.cfg = IF dns.stage = 3 THEN @ ELSE @ \cup {u}]

\* parseDNS, lines 981-1012: a list is parsed, with the checks that follow
\* it, and the next one is taken up.
nextNameServers ==
    /\ UNCHANGED <<fvars, dvars, cvars, avars, hvars, ovars, rvars, verify, tun>>
    /\ dns.pc = "run" /\ dns.stage < 5
    /\ \E enable \in BOOLEAN :
          IF dns.stage = 1 /\ enable /\ dns.ns[1] = <<>>
          THEN dns' = [dns EXCEPT !.pc = "err"]
          ELSE dns' = [dns EXCEPT !.stage = @ + 1]

\* parseDNS, lines 1014-1098: the checks of the remote and of the default
\* name servers, and in fake-ip mode the filter of the hosts that get no
\* fake IP. No name server of a policy has a loopback or a private address.
parseDNS ==
    /\ UNCHANGED <<fvars, dvars, cvars, avars, hvars, ovars, rvars, verify, tun>>
    /\ dns.pc = "run" /\ dns.stage = 5
    /\ \E remoteDnsResolve \in BOOLEAN, default \in {"none", "name", "ip"},
          mode \in {"fake-ip", "redir-host"}, fakeIPFilter \in SUBSET {<<"skip.example">>} :
          LET servers == dns.ns[1] \o dns.ns[2] \o dns.ns[4] \o dns.ns[5]
              IsAddr(h) == h = <<"1.1.1.1">>
              skipHost(ns) == LET h == SplitHostPort(ns.Addr).host
                              IN  IF ~IsAddr(h) THEN h ELSE <<>>
              defaultFakeIPFilter ==
                  {<<"*.lan">>, <<"*.local">>, <<"*.localhost">>, <<"*.test">>,
                   <<"+.msftconnecttest.com">>, <<"localhost.ptlogin2.qq.com">>,
                   <<"localhost.sec.qq.com">>}
                  \cup ({skipHost(servers[i]) : i \in DOMAIN servers} \ {<<>>})
                  \cup {SplitHostPort(dns.ns[3][i].Addr).host : i \in
                           {j \in DOMAIN dns.ns[3] :
                               ~IsAddr(SplitHostPort(dns.ns[3][j].Addr).host)}}
          IN  IF \/ remoteDnsResolve /\ dns.ns[5] = <<>>
                 \/ \E i \in DOMAIN dns.ns[5] : dns.ns[5][i].Net = "dhcp"
                 \/ default # "ip"
              THEN dns' = [dns EXCEPT !.pc = "err"]
              ELSE dns' = [dns EXCEPT
                              !.pc = "ok", !.mode = mode,
                              !.filter = IF mode = "fake-ip"
                                         THEN fakeIPFilter \cup defaultFakeIPFilter ELSE {}]

DnsNext ==
    \/ parseNameServer
    \/ nextNameServers
    \/ parseDNS

(***************************************************************************)
(* Claims about the fake-IP filter.                                        *)
(***************************************************************************)
\* C23 as stated: in fake-ip mode the filter holds the LAN, local and test
\* patterns and the host name of every name server of the configuration, of
\* whatever transport, whose host is a domain name. (A dhcp server names an
\* interface, not a host.)
C23_FilterHoldsUpstreamHosts ==
    dns.pc = "ok" /\ dns.mode = "fake-ip" =>
        /\ {<<"*.lan">>, <<"*.local">>, <<"*.localhost">>, <<"*.test">>} \subseteq dns.filter
        /\ \A u \in dns.cfg :
              u.scheme # "dhcp" /\ u.host = "dns.example" => <<u.host>> \in dns.filter

(***************************************************************************)
(*                    PART IX: verifyScriptMatcher                         *)
(***************************************************************************)
\* The global script state: the getter of the script proxy providers and
\* the script rule providers, each either what an earlier configuration set
\* ("old", "none") or what the configuration under verification sets ("new").

\* C.BackupScriptState: the global script state is saved.
BackupScriptState(v) ==
    [v EXCEPT !.backup = [getter |-> v.getter, ruleProviders |-> v.ruleProviders]]

\* C.RestoreScriptState: the saved script state is put back.
RestoreScriptState(v) ==
    [v EXCEPT !.getter = v.backup.getter, !.ruleProviders = v.backup.ruleProviders]

\* verifyScriptMatcher is called with n matchers, each of which is to be
\* tried on the two cases; verify.before is the global script state at the
\* call.
VerifyInit ==
    /\ \E g, rp \in {"none", "old"}, n \in 0..MaxMatchers :
          verify = [getter |-> g, ruleProviders |-> rp,
                    backup |-> [getter |-> "none", ruleProviders |-> "none"],
                    before |-> [getter |-> g, ruleProviders |-> rp],
                    n |-> n, i |-> 0, pc |-> "call", err |-> "nil"]
    \* the other parts stand still
    /\ f = <<>> /\ vehicle = <<>> /\ file = <<>> /\ now = 0
    /\ rt = <<>> /\ pc = <<>> /\ obs = <<>>
    /\ d = <<>> /\ net = <<>> /\ call = <<>> /\ dobs = <<>>
    /\ cfg = <<>> /\ pp = <<>> /\ res = <<>> /\ cobs = <<>>
    /\ auth = <<>> /\ doh = <<>> /\ http = <<>> /\ rules = <<>>
    /\ dns = <<>> /\ tun = <<>>

\* verifyScriptMatcher, lines 1308-1350: without matchers it returns; else
\* it saves the script state, sets the getter and the rule providers of the
\* configuration, and defers RestoreScriptState.
verifyScriptMatcher ==
    /\ UNCHANGED <<fvars, dvars, cvars, avars, hvars, ovars, rvars, dns, tun>>
    /\ verify.pc = "call"
    /\ verify' = IF verify.n = 0
                 THEN [verify EXCEPT !.pc = "returned"]
                 ELSE [BackupScriptState(verify) EXCEPT
                          !.getter = "new", !.ruleProviders = "new", !.pc = "loop"]

\* evalMatcher without the deferred RestoreScriptState when the script
\* panics.
evalMatcher_NoRestoreOnPanic ==
    /\ UNCHANGED <<fvars, dvars, cvars, avars, hvars, ovars, rvars, dns, tun>>
    /\ verify.pc = "loop" /\ verify.i < 2 * verify.n
    /\ \E outcome \in {"value", "error", "panic"} :
          verify' =
              CASE outcome = "value" -> [verify EXCEPT !.i = @ + 1]
                [] outcome = "error" ->
                     [RestoreScriptState(verify) EXCEPT
                         !.pc = "returned", !.err = "verify script code failed"]
                [] outcome = "panic" ->
                     [verify EXCEPT !.pc = "returned", !.err = "test script code panic"]

\* verifyScriptMatcher, lines 1352-1364: a matcher is evaluated on a case.
\* Its error is returned, and its panic is recovered by the function
\* deferred first (lines 1309-1313), in both cases after the deferred
\* RestoreScriptState.
evalMatcher ==
    /\ UNCHANGED <<fvars, dvars, cvars, avars, hvars, ovars, rvars, dns, tun>>
    /\ verify.pc = "loop" /\ verify.i < 2 * verify.n
    /\ \E outcome \in {"value", "error", "panic"} :
          verify' =
              CASE outcome = "value" -> [verify EXCEPT !.i = @ + 1]
                [] outcome = "error" ->
                     [RestoreScriptState(verify) EXCEPT
                         !.pc = "returned", !.err = "verify script code failed"]
                [] outcome = "panic" ->
                     [RestoreScriptState(verify) EXCEPT
                         !.pc = "returned", !.err = "test script code panic"]

\* verifyScriptMatcher, line 1367: all matchers pass; the deferred
\* RestoreScriptState runs.
verifyReturn ==
    /\ UNCHANGED <<fvars, dvars, cvars, avars, hvars, ovars, rvars, dns, tun>>
    /\ verify.pc = "loop" /\ verify.i = 2 * verify.n
    /\ verify' = [RestoreScriptState(verify) EXCEPT !.pc = "returned"]

VerifyNext ==
    \/ verifyScriptMatcher
    \/ evalMatcher
    \/ verifyReturn

(***************************************************************************)
(* Claims about verifyScriptMatcher.                                       *)
(***************************************************************************)
\* C25: when verifyScriptMatcher has returned, on whichever path, the
\* global script state is what it was at the call, and it has returned an
\* error if a matcher failed or panicked.
C25_ScriptStateRestored ==
    verify.pc = "returned" =>
        /\ verify.getter = verify.before.getter
        /\ verify.ruleProviders = verify.before.ruleProviders
        /\ verify.i < 2 * verify.n => verify.err # "nil"

\* C25 happens: a script panicked in the second matcher, after the script
\* state was changed, and verifyScriptMatcher has returned the error.
C25_Witness ==
    /\ verify.pc = "returned" /\ verify.err = "test script code panic"
    /\ verify.i >= 2 /\ verify.before.getter = "old"

(***************************************************************************)
(*              PART X: THE DEFAULT INTERFACE OF THE TUN DEVICE            *)
(***************************************************************************)
\* What defaultRouteInterface returns: errInterfaceNotFound, another error,
\* or the default interface.
RouteOutcomes == {"notfound", "error", "en0", "en1"}

\* The package's variables: tunStatus is TunDisabled, and the default
\* interface of the dialer is not set. tun.callbacks is the calls of the
\* TUN change callback since SetTunStatus was last called, tun.events the
\* number of route changes handled and tun.route what defaultRouteInterface
\* returned to the last of them. A call of GetAutoDetectInterface is at its
\* label startOver for the first time.
TunInit ==
    /\ tun = [status |-> "disabled", iface |-> "", callbacks |-> <<>>,
              events |-> 0, route |-> "",
              tryTimes |-> 0, retryOnFailure |-> TRUE, attempts |-> 0,
              pc |-> "startOver", name |-> "", err |-> "nil"]
    \* the other parts stand still
    /\ f = <<>> /\ vehicle = <<>> /\ file = <<>> /\ now = 0
    /\ rt = <<>> /\ pc = <<>> /\ obs = <<>>
    /\ d = <<>> /\ net = <<>> /\ call = <<>> /\ dobs = <<>>
    /\ cfg = <<>> /\ pp = <<>> /\ res = <<>> /\ cobs = <<>>
    /\ auth = <<>> /\ doh = <<>> /\ http = <<>> /\ rules = <<>>
    /\ dns = <<>> /\ verify = <<>>

\* GetAutoDetectInterface with one more retry allowed at line 85.
GetAutoDetectInterface_OneMoreRetry ==
    /\ UNCHANGED <<fvars, dvars, cvars, avars, hvars, ovars, rvars, dns, verify>>
    /\ tun.pc = "startOver"
    /\ \E route \in RouteOutcomes :
          LET retry == IF tun.tryTimes > 0
                       THEN tun.retryOnFailure /\ tun.tryTimes < 26
                       ELSE tun.retryOnFailure
              tried == [tun EXCEPT !.retryOnFailure = retry, !.tryTimes = @ + 1,
                                   !.attempts = @ + 1]
          IN  tun' = CASE route = "notfound" /\ retry -> tried
                       [] route = "notfound" /\ ~retry ->
                            [tried EXCEPT !.pc = "returned",
                                          !.err = "default interface not found"]
                       [] route = "error" ->
                            [tried EXCEPT !.pc = "returned", !.err = "error"]
                       [] OTHER -> [tried EXCEPT !.pc = "returned", !.name = route]

\* GetAutoDetectInterface, lines 74-99, from the label startOver to the goto
\* or to a return; tun.attempts counts the calls of defaultRouteInterface.
GetAutoDetectInterface ==
    /\ UNCHANGED <<fvars, dvars, cvars, avars, hvars, ovars, rvars, dns, verify>>
    /\ tun.pc = "startOver"
    /\ \E route \in RouteOutcomes :
          LET retry == IF tun.tryTimes > 0
                       THEN tun.retryOnFailure /\ tun.tryTimes < 25
                       ELSE tun.retryOnFailure
              tried == [tun EXCEPT !.retryOnFailure = retry, !.tryTimes = @ + 1,
                                   !.attempts = @ + 1]
          IN  tun' = CASE route = "notfound" /\ retry -> tried
                       [] route = "notfound" /\ ~retry ->
                            [tried EXCEPT !.pc = "returned",
                                          !.err = "default interface not found"]
                       [] route = "error" ->
                            [tried EXCEPT !.pc = "returned", !.err = "error"]
                       [] OTHER -> [tried EXCEPT !.pc = "returned", !.name = route]

\* SetTunStatus, lines 132-134, called by the TUN listener when the device
\* is started and when it is closed.
SetTunStatus ==
    /\ UNCHANGED <<fvars, dvars, cvars, avars, hvars, ovars, rvars, dns, verify>>
    /\ \E status \in {"enabled", "disabled"} :
          /\ status # tun.status \/ tun.callbacks # <<>>
          /\ tun' = [tun EXCEPT !.status = status, !.callbacks = <<>>]

\* onChangeDefaultRoute that pauses whatever the status is.
onChangeDefaultRoute_NoStatusTest ==
    /\ UNCHANGED <<fvars, dvars, cvars, avars, hvars, ovars, rvars, dns, verify>>
    /\ tun.events < MaxEvents
    /\ \E route \in RouteOutcomes :
          LET handled == [tun EXCEPT !.events = @ + 1, !.route = route]
          IN  tun' =
                CASE route = "notfound" ->
                       [handled EXCEPT !.status = "paused",
                                       !.callbacks = Append(@, "Pause")]
                  [] route = "error" -> handled
                  [] route = tun.iface /\ tun.status = "enabled" -> handled
                  [] OTHER ->
                       IF tun.status = "paused"
                       THEN [handled EXCEPT !.iface = route, !.status = "enabled",
                                            !.callbacks = Append(@, "Resume")]
                       ELSE [handled EXCEPT !.iface = route]

\* onChangeDefaultRoute, lines 137-178: a change of the default route is
\* handled, from the call of defaultRouteInterface to the return.
onChangeDefaultRoute ==
    /\ UNCHANGED <<fvars, dvars, cvars, avars, hvars, ovars, rvars, dns, verify>>
    /\ tun.events < MaxEvents
    /\ \E route \in RouteOutcomes :
          LET handled == [tun EXCEPT !.events = @ + 1, !.route = route]
          IN  tun' =
                CASE route = "notfound" /\ tun.status = "enabled" ->
                       [handled EXCEPT !.status = "paused",
                                       !.callbacks = Append(@, "Pause")]
                  [] route \in {"notfound", "error"} -> handled
                  [] route = tun.iface /\ tun.status = "enabled" -> handled
                  [] OTHER ->
                       IF tun.status = "paused"
                       THEN [handled EXCEPT !.iface = route, !.status = "enabled",
                                            !.callbacks = Append(@, "Resume")]
                       ELSE [handled EXCEPT !.iface = route]

TunNext ==
    \/ GetAutoDetectInterface
    \/ SetTunStatus
    \/ onChangeDefaultRoute

(***************************************************************************)
(* Claims about the default interface.                                     *)
(***************************************************************************)
\* A step that handles a change of the default route.
RouteChange == tun'.events = tun.events + 1

C30_DetectTerminates ==
    /\ tun.attempts <= 26 /\ tun.attempts = tun.tryTimes
    /\ tun.pc = "startOver" => tun.name = "" /\ tun.err = "nil"
    /\ tun.pc = "returned" =>
          /\ tun.attempts >= 1
          /\ (tun.name = "") # (tun.err = "nil")
          /\ tun.err = "default interface not found" => tun.attempts = 26

\* C30 happens: the 26th call did not find the interface and the error is
\* returned.
C30_Witness ==
    tun.pc = "returned" /\ tun.attempts = 26 /\ tun.err = "default interface not found"

(***************************************************************************)
(* The specifications.                                                     *)
(***************************************************************************)
FetcherSpec ==
    /\ FetcherInit
    /\ [][FetcherNext]_vars

DhcpSpec ==
    /\ DhcpInit
    /\ [][DhcpNext]_vars

ConfigSpec ==
    /\ ConfigInit
    /\ [][ConfigNext]_vars

AuthSpec ==
    /\ AuthInit
    /\ [][AuthNext]_vars

DohSpec ==
    /\ DohInit
    /\ [][DohNext]_vars

HttpSpec ==
    /\ HttpInit
    /\ [][HttpNext]_vars

RulesSpec ==
    /\ RulesInit
    /\ [][RulesNext]_vars


ParseDnsSpec ==
    /\ DnsInit
    /\ [][DnsNext]_vars


VerifySpec ==
    /\ VerifyInit
    /\ [][VerifyNext]_vars


TunSpec ==
    /\ TunInit
    /\ [][TunNext]_vars

====
